---------------------------- MODULE Spec2Model ----------------------------
(***************************************************************************)
(* A model of the Screwfix scraper's field-extraction and normalization    *)
(* pipeline (src/Screwfix_scraper.py) and of its persistence helpers       *)
(* (src/db_utils.py).                                                      *)
(*                                                                         *)
(* Text is modelled as a sequence of characters (one-character strings),   *)
(* so that Python's substring test `a in b`, lower(), strip() and the      *)
(* per-character digit filter are computed as the code computes them.      *)
(* A Python float is modelled as an exact decimal m * 10^(-e).             *)
(***************************************************************************)
EXTENDS Integers, Sequences, FiniteSets, TLC

VARIABLES
    pc,         \* position of the modelled routine
    nIn,        \* normalizers: the argument val_str
    nOut,       \* normalizers: what the call produced (value or raised)
    nFn,        \* normalizers: which normalizer was called
    details,    \* get_product_details: the details dictionary
    before,     \* the details dictionary as it was before the last step
    lastRow,    \* the specification row the last step processed
    nRows,      \* number of specification rows processed so far
    directKnown,\* some row's direct volume parse produced a number
    estKnown,   \* some row's weight-density estimate produced a value
    page,       \* the rendered page: name, SKU, brand and price elements
    scripts,    \* the page's application/ld+json script elements
    content,    \* the page's gallery, quantity input, paragraphs and bullets
    chunk,      \* run_worker_batch: products_chunk (items are updated in place)
    idx,        \* run_worker_batch: number of items the loop has been through
    results,    \* run_worker_batch: worker_results
    db,         \* the products table: url -> stored row
    itemBefore, \* the item of the last iteration as the iteration found it
    fetched,    \* the details dictionary the last iteration fetched
    outcome,    \* how the last iteration ended
    atReach,    \* the table and the results when the last iteration began
    products,   \* scrape_products_parallel: products_list
    maxWorkers, \* scrape_products_parallel: max_workers
    chunks,     \* scrape_products_parallel: the chunks submitted to the pool
    workers,    \* the pool's tasks: state, position and worker_results of each
    fully_scraped_data, \* scrape_products_parallel: what the pool gathered
    order,      \* the tasks in the order their futures were collected
    calls,      \* per URL: get_product_details calls and upserts of this batch
    tableRows,  \* the products table as its set of rows (id, url, columns)
    writers,    \* concurrent callers of save_product: record and progress
    lastCommit, \* per URL: the record of the last committed save_product
    all_scraped_data, \* ScrewfixScraper.all_scraped_data
    last_save_count,  \* ScrewfixScraper.last_save_count
    all_data,   \* what navigate_all_categories has gathered to return
    files,      \* the records the export files hold
    lastCall    \* how the last check_and_save_incrementally call ended

poolVars == <<products, maxWorkers, chunks, workers, fully_scraped_data, order, calls>>

storeVars == <<tableRows, writers, lastCommit>>

exportVars == <<all_scraped_data, last_save_count, all_data, files, lastCall>>

runVars == <<poolVars, storeVars, exportVars>>

vars == <<pc, nIn, nOut, nFn, details, before, lastRow, nRows,
          directKnown, estKnown, page, scripts, content,
          chunk, idx, results, db, itemBefore, fetched, outcome, atReach,
          products, maxWorkers, chunks, workers, fully_scraped_data, order, calls,
          tableRows, writers, lastCommit,
          all_scraped_data, last_save_count, all_data, files, lastCall>>

PoolIdle ==
    /\ products = <<>>
    /\ maxWorkers = 0
    /\ chunks = <<>>
    /\ workers = <<>>
    /\ fully_scraped_data = <<>>
    /\ order = <<>>
    /\ calls = <<>>

StoreIdle ==
    /\ tableRows = {}
    /\ writers = <<>>
    /\ lastCommit = <<>>

ExportIdle ==
    /\ all_scraped_data = <<>>
    /\ last_save_count = 0
    /\ all_data = <<>>
    /\ files = <<>>
    /\ lastCall = "none"

RunIdle == PoolIdle /\ StoreIdle /\ ExportIdle

normVars == <<nIn, nOut, nFn>>
rowVars  == <<details, before, lastRow, nRows, directKnown, estKnown>>
pageVars == <<page, scripts, content>>
workVars == <<chunk, idx, results, db, itemBefore, fetched, outcome, atReach>>

---------------------------------------------------------------------------
(* Bounds of the model.                                                    *)

\* longest numeral (digits and dots) put in front of a unit token
MaxNumLen == 3

\* most specification rows on one product page
MaxRows == 3

\* most application/ld+json script elements on one product page
MaxScripts == 2

\* most products in the chunk of one worker
MaxChunk == 2

\* most img elements in the gallery of one product page
MaxGallery == 2

---------------------------------------------------------------------------
(* Values.  Every Python value the pipeline stores in a field is one of:   *)
(*   a str            [k |-> "str", s |-> characters]                      *)
(*   a float          [k |-> "num", m, e]   meaning m * 10^(-e)            *)
(* and a call that raised is [k |-> "raise"].  All three share one record  *)
(* shape so that Python's == / != between them is plain equality.          *)

Str(s) == [k |-> "str", s |-> s, m |-> 0, e |-> 0]

RECURSIVE Pow10(_)
Pow10(n) == IF n <= 0 THEN 1 ELSE 10 * Pow10(n - 1)

\* m * 10^(-e) with trailing zeros of the fraction removed: equal floats
\* get equal representations.
RECURSIVE Norm(_, _)
Norm(m, e) == IF m = 0 THEN [m |-> 0, e |-> 0]
              ELSE IF e > 0 /\ m % 10 = 0 THEN Norm(m \div 10, e - 1)
              ELSE [m |-> m, e |-> e]

Num(m, e) == [k |-> "num", s |-> <<>>, m |-> Norm(m, e).m, e |-> Norm(m, e).e]

Raised == [k |-> "raise", s |-> <<>>, m |-> 0, e |-> 0]

\* Python's None (a JSON null)
PyNone == [k |-> "none", s |-> <<>>, m |-> 0, e |-> 0]

\* the unknown sentinel "N/A"
NA == Str(<<"N", "/", "A">>)

\* float multiplication a * b
Mul(a, b) == Num(a.m * b.m, a.e + b.e)

\* a > 0 for a float
Positive(a) == a.k = "num" /\ a.m > 0

---------------------------------------------------------------------------
(* Characters and Python's str methods.                                    *)

Digits == {"0", "1", "2", "3", "4", "5", "6", "7", "8", "9"}

\* The characters U+00B2 and U+00B3 (superscript two and three), written
\* as tokens: str.isdigit() is True for them, float() rejects them.
Sup2 == "sup2"
Sup3 == "sup3"

\* the pound sign U+00A3, written as a token
Pound == "pound"

\* c.isdigit()
IsDigit(c) == c \in Digits \cup {Sup2, Sup3}

DigitVal(c) == CASE c = "0" -> 0 [] c = "1" -> 1 [] c = "2" -> 2 [] c = "3" -> 3
                 [] c = "4" -> 4 [] c = "5" -> 5 [] c = "6" -> 6 [] c = "7" -> 7
                 [] c = "8" -> 8 [] c = "9" -> 9

\* c.lower() on the letters the inputs use in upper case
LowerChar(c) == CASE c = "A" -> "a" [] c = "B" -> "b" [] c = "C" -> "c"
                  [] c = "D" -> "d" [] c = "E" -> "e" [] c = "I" -> "i"
                  [] c = "K" -> "k" [] c = "L" -> "l" [] c = "M" -> "m"
                  [] c = "N" -> "n" [] c = "P" -> "p" [] c = "S" -> "s"
                  [] c = "T" -> "t" [] c = "V" -> "v" [] c = "W" -> "w"
                  [] OTHER -> c

\* s.lower()
Lower(s) == [i \in 1..Len(s) |-> LowerChar(s[i])]

\* s.strip()
RECURSIVE Strip(_)
Strip(s) == IF s = <<>> THEN s
            ELSE IF Head(s) = " " THEN Strip(Tail(s))
            ELSE IF s[Len(s)] = " " THEN Strip(SubSeq(s, 1, Len(s) - 1))
            ELSE s

\* sub in s
Contains(sub, s) ==
    \E i \in 0..(Len(s) - Len(sub)) : SubSeq(s, i + 1, i + Len(sub)) = sub

\* "".join(c for c in s if c.isdigit() or c == '.')
RECURSIVE DigitFilter(_)
DigitFilter(s) ==
    IF s = <<>> THEN <<>>
    ELSE IF IsDigit(Head(s)) \/ Head(s) = "."
         THEN <<Head(s)>> \o DigitFilter(Tail(s))
         ELSE DigitFilter(Tail(s))

RECURSIVE CountDots(_)
CountDots(s) == IF s = <<>> THEN 0
                ELSE (IF Head(s) = "." THEN 1 ELSE 0) + CountDots(Tail(s))

RECURSIVE DigitsValue(_)
DigitsValue(s) == IF s = <<>> THEN 0
                  ELSE DigitsValue(SubSeq(s, 1, Len(s) - 1)) * 10 + DigitVal(s[Len(s)])

DotPos(s) == CHOOSE i \in 1..Len(s) : s[i] = "."

\* float(s) for s made of isdigit() characters and dots: a ValueError unless
\* s holds at least one decimal digit, at most one dot and no superscript.
ParseFloat(s) ==
    IF \/ \E i \in 1..Len(s) : s[i] \in {Sup2, Sup3}
       \/ CountDots(s) > 1
       \/ ~ \E i \in 1..Len(s) : s[i] \in Digits
    THEN Raised
    ELSE IF CountDots(s) = 0 THEN Num(DigitsValue(s), 0)
    ELSE LET p == DotPos(s)
             d == SubSeq(s, 1, p - 1) \o SubSeq(s, p + 1, Len(s))
         IN  Num(DigitsValue(d), Len(s) - p)

---------------------------------------------------------------------------
(* Unit Normalizer: clean_dim, clean_vol, clean_area.                      *)

\* the unit factors, as exact decimals
FactorOne   == Num(1, 0)
FactorMilli == Num(1, 3)
FactorCenti == Num(1, 2)
FactorInch  == Num(254, 4)
FactorMicro == Num(1, 6)
FactorCm2   == Num(1, 4)

\* clean_dim's chain with the bare "m" test moved in front of "mm" and "cm"
DimFactorBareMFirst(s) ==
    IF Contains(<<"m">>, s) THEN FactorOne
    ELSE IF Contains(<<"m", "m">>, s) THEN FactorMilli
    ELSE IF Contains(<<"c", "m">>, s) THEN FactorCenti
    ELSE IF \/ Contains(<<"\"">>, s)
            \/ Contains(<<"i", "n", "c", "h">>, s)
            \/ Contains(<<"i", "m", "p", "e", "r", "i", "a", "l">>, s)
         THEN FactorInch
    ELSE FactorOne

\* the unit chosen by clean_dim's if/elif chain
DimFactor(s) ==
    IF Contains(<<"m", "m">>, s) THEN FactorMilli
    ELSE IF Contains(<<"c", "m">>, s) THEN FactorCenti
    ELSE IF Contains(<<"m">>, s) /\ ~ Contains(<<"m", "m">>, s) THEN FactorOne
    ELSE IF \/ Contains(<<"\"">>, s)
            \/ Contains(<<"i", "n", "c", "h">>, s)
            \/ Contains(<<"i", "m", "p", "e", "r", "i", "a", "l">>, s)
         THEN FactorInch
    ELSE FactorOne

\* the unit chosen by clean_vol's if/elif chain
VolFactor(s) ==
    IF Contains(<<"m", "l">>, s) THEN FactorMicro
    ELSE IF \/ Contains(<<"l", "t", "r">>, s)
            \/ Contains(<<"l", "i", "t", "e", "r">>, s)
            \/ Contains(<<"l", "i", "t", "r", "e">>, s)
         THEN FactorMilli
    ELSE IF Contains(<<"m", "3">>, s) THEN FactorOne
    ELSE FactorOne

\* the unit chosen by clean_area's if/elif chain
AreaFactor(s) ==
    IF Contains(<<"m", "m", "2">>, s) \/ Contains(<<"m", "m", Sup2>>, s)
    THEN FactorMicro
    ELSE IF Contains(<<"c", "m", "2">>, s) \/ Contains(<<"c", "m", Sup2>>, s)
    THEN FactorCm2
    ELSE IF Contains(<<"m", "2">>, s) \/ Contains(<<"m", Sup2>>, s)
    THEN FactorOne
    ELSE FactorOne

\* the tail shared by the three normalizers: filter the characters, return
\* "N/A" when nothing is left, otherwise float(clean_val) * factor (a
\* ValueError of float() leaves the normalizer as an exception).
ScaleDigits(s, factor) ==
    LET clean_val == DigitFilter(s)
    IN  IF clean_val = <<>> THEN NA
        ELSE IF ParseFloat(clean_val) = Raised THEN Raised
        ELSE Mul(ParseFloat(clean_val), factor)

clean_dim(val_str) ==
    IF val_str = <<>> \/ val_str = NA.s THEN NA
    ELSE LET s == Strip(Lower(val_str)) IN ScaleDigits(s, DimFactor(s))

clean_vol(val_str) ==
    IF val_str = <<>> \/ val_str = NA.s THEN NA
    ELSE LET s == Strip(Lower(val_str)) IN ScaleDigits(s, VolFactor(s))

clean_area(val_str) ==
    IF val_str = <<>> \/ val_str = NA.s THEN NA
    ELSE LET s == Strip(Lower(val_str)) IN ScaleDigits(s, AreaFactor(s))

---------------------------------------------------------------------------
(* The details dictionary of get_product_details.  Text that the code only *)
(* stores and never inspects (supplier, region) is a one-token string.     *)

Zero == Num(0, 0)

DefaultDetails ==
    [ Name              |-> NA,
      Price_Inc_VAT     |-> Zero,
      All_Images        |-> NA,
      Region            |-> Str(<<"UK (Default)">>),
      SKU               |-> NA,
      Supplier          |-> Str(<<"Screwfix">>),
      Brand             |-> NA,
      Quantity          |-> NA,
      Pieces_in_Pack    |-> NA,
      Coverage_M2       |-> NA,
      Volume_M3         |-> NA,
      Product_Length_M  |-> NA,
      Product_Width     |-> NA,
      Product_Thickness |-> NA,
      Product_Weight_Kg |-> NA,
      Product_Type      |-> NA,
      Material          |-> NA,
      description       |-> NA ]

\* a specification row: its number of cells and the innerText of the first two
Row(n, label, value) == [ncols |-> n, label |-> label, value |-> value]

NoRow == Row(0, <<>>, <<>>)

RowsIdle ==
    /\ details = DefaultDetails
    /\ before = DefaultDetails
    /\ lastRow = NoRow
    /\ nRows = 0
    /\ directKnown = FALSE
    /\ estKnown = FALSE

---------------------------------------------------------------------------
(* The rendered page and its structured data, as get_product_details reads *)
(* them.  An element the XPath does not find (find_element raises) has     *)
(* has = FALSE.  A URL is a one-token string.                              *)

Elem(text)  == [has |-> TRUE, text |-> text]
NoElem      == [has |-> FALSE, text |-> <<>>]

\* a JSON member: absent, or present with a value of some JSON kind
\*   kind "str" / "num": v is the value;  "null": JSON null;
\*   "dict": a JSON object whose member "name" (brand) or "price" (offer) is
\*           the member `inner`;  "list": a JSON array whose first element
\*           is the object with member `inner`, n its length
NoInner == [has |-> FALSE, kind |-> "none", v |-> NA]
Absent  == [has |-> FALSE, kind |-> "none", v |-> NA, n |-> 0, inner |-> NoInner]
JStr(s) == [has |-> TRUE, kind |-> "str", v |-> Str(s), n |-> 0, inner |-> NoInner]
JNull   == [has |-> TRUE, kind |-> "null", v |-> NA, n |-> 0, inner |-> NoInner]
JDict(inner) == [has |-> TRUE, kind |-> "dict", v |-> NA, n |-> 0, inner |-> inner]
JList(n, inner) == [has |-> TRUE, kind |-> "list", v |-> NA, n |-> n, inner |-> inner]
InnerStr(s) == [has |-> TRUE, kind |-> "str", v |-> Str(s)]
InnerNum(x) == [has |-> TRUE, kind |-> "num", v |-> x]
InnerNull   == [has |-> TRUE, kind |-> "null", v |-> NA]

\* the JSON member "image": absent, a list of values (allStr: every
\* element is a string), one string, or a value of another kind
NoImage          == [has |-> FALSE, kind |-> "none", urls |-> <<>>, allStr |-> TRUE]
ImageList(urls)  == [has |-> TRUE, kind |-> "list", urls |-> urls, allStr |-> TRUE]
ImageMixed(urls) == [has |-> TRUE, kind |-> "list", urls |-> urls, allStr |-> FALSE]
ImageStr(url)    == [has |-> TRUE, kind |-> "str", urls |-> <<url>>, allStr |-> TRUE]
ImageOther       == [has |-> TRUE, kind |-> "other", urls |-> <<>>, allStr |-> TRUE]

\* one JSON value handed to _extract_json_ld
LdItem(isDict, type, sku, brand, description, image, offers) ==
    [isDict |-> isDict, type |-> type, sku |-> sku, brand |-> brand,
     description |-> description, image |-> image, offers |-> offers]

\* one script element: whether json.loads accepts its text, whether the
\* parsed value is a list, and the value's items (one item when not a list)
Script(parses, isList, items) ==
    [parses |-> parses, isList |-> isList, items |-> items]

NoPage == [name |-> NoElem, ogTitle |-> NoElem, screenshotOk |-> FALSE,
           skuElem |-> NoElem, skuMeta |-> NoElem, urlTail |-> <<>>,
           brandAlt |-> NoElem, price |-> NoElem]

\* the rest of the page: the gallery's img elements (src and data-src, <<>>
\* for an attribute that is missing or empty), the value of the quantity
\* input, the elements of the five description selectors in their order,
\* and the texts of the first bullet list
Img(src, dataSrc) == [src |-> src, dataSrc |-> dataSrc]
QtyElem(text) == [has |-> TRUE, null |-> FALSE, text |-> text]
QtyNoValue    == [has |-> TRUE, null |-> TRUE, text |-> <<>>]
NoQty         == [has |-> FALSE, null |-> FALSE, text |-> <<>>]

NoContent == [galleryOk |-> TRUE, gallery |-> <<>>, qty |-> NoQty,
              descs |-> <<NoElem, NoElem, NoElem, NoElem, NoElem>>,
              bullets |-> <<>>]

PageIdle ==
    /\ page = NoPage
    /\ scripts = <<>>
    /\ content = NoContent

---------------------------------------------------------------------------
(* get_product_details, section 1: name, SKU, brand and price of the page. *)

\* s.split(c)[0]
RECURSIVE SplitBefore(_, _)
SplitBefore(s, c) == IF s = <<>> \/ Head(s) = c THEN <<>>
                     ELSE <<Head(s)>> \o SplitBefore(Tail(s), c)

\* s.replace('(', '').replace(')', '')
RECURSIVE RemoveParens(_)
RemoveParens(s) == IF s = <<>> THEN <<>>
                   ELSE IF Head(s) \in {"(", ")"} THEN RemoveParens(Tail(s))
                   ELSE <<Head(s)>> \o RemoveParens(Tail(s))

NameStep(d, p) ==
    IF p.name.has
    THEN LET full_text == Strip(p.name.text)
         IN  IF Contains(<<"(">>, full_text) /\ Contains(<<")">>, full_text)
             THEN [d EXCEPT !.Name = Str(Strip(SplitBefore(full_text, "(")))]
             ELSE [d EXCEPT !.Name = Str(full_text)]
    ELSE IF p.screenshotOk /\ p.ogTitle.has
         THEN [d EXCEPT !.Name = Str(p.ogTitle.text)]
         ELSE d

SkuStep(d, p) ==
    IF p.skuElem.has
    THEN [d EXCEPT !.SKU = Str(Strip(RemoveParens(p.skuElem.text)))]
    ELSE IF p.skuMeta.has THEN [d EXCEPT !.SKU = Str(p.skuMeta.text)]
    ELSE [d EXCEPT !.SKU = Str(p.urlTail)]

BrandStep(d, p) ==
    IF p.brandAlt.has THEN [d EXCEPT !.Brand = Str(Strip(p.brandAlt.text))] ELSE d

PriceStep(d, p) ==
    IF p.price.has
    THEN LET clean_price == DigitFilter(Strip(p.price.text))
         IN  IF clean_price # <<>> /\ ParseFloat(clean_price) # Raised
             THEN [d EXCEPT !.Price_Inc_VAT = ParseFloat(clean_price)]
             ELSE d
    ELSE d

BasicInfo(d, p) == PriceStep(BrandStep(SkuStep(NameStep(d, p), p), p), p)

---------------------------------------------------------------------------
(* get_product_details, section 2, and _extract_json_ld.                   *)

\* the Python value of a JSON member
JValue(j) == IF j.kind = "null" THEN PyNone ELSE j.v

\* str(x) of a JSON value
PyStr(j) == IF j.kind = "null" THEN Str(<<"N", "o", "n", "e">>) ELSE j.v

\* float(x) of a JSON value: a number is itself, a string is parsed, None
\* raises TypeError
PyFloat(j) ==
    IF j.kind = "num" THEN j.v
    ELSE IF j.kind = "str"
         THEN IF \A i \in 1..Len(j.v.s) : j.v.s[i] \in Digits \cup {"."}
              THEN ParseFloat(j.v.s) ELSE Raised
    ELSE Raised

\* ", ".join(imgs)
RECURSIVE JoinComma(_)
JoinComma(urls) == IF urls = <<>> THEN <<>>
                   ELSE IF Len(urls) = 1 THEN urls
                   ELSE <<Head(urls), ",", " ">> \o JoinComma(Tail(urls))

\* data["brand"].get("name", "N/A") or str(data["brand"])
LdBrand(brand) ==
    IF brand.kind = "dict"
    THEN (IF brand.inner.has THEN JValue(brand.inner) ELSE NA)
    ELSE PyStr(brand)

\* float(offers[0].get("price", 0.0)) / float(offers.get("price", 0.0))
LdPrice(offers) ==
    IF offers.inner.has THEN PyFloat(offers.inner) ELSE Zero

\* the offers value reaches one of the two float(...) assignments
OffersUsed(offers) ==
    \/ offers.kind = "list" /\ offers.n > 0
    \/ offers.kind = "dict"

\* _extract_json_ld(data, details): the dictionary it leaves, and whether it
\* raised (the assignments made before the exception stay)
ExtractJsonLd(data, d) ==
    IF ~ data.isDict \/ data.type # "Product" THEN [d |-> d, raised |-> FALSE]
    ELSE
    LET d1 == IF data.sku.has THEN [d EXCEPT !.SKU = JValue(data.sku)] ELSE d
        d2 == IF data.brand.has THEN [d1 EXCEPT !.Brand = LdBrand(data.brand)] ELSE d1
        d3 == IF data.description.has
              THEN [d2 EXCEPT !.description = JValue(data.description)] ELSE d2
        imageRaises == data.image.has /\ data.image.kind = "list" /\ ~ data.image.allStr
        d4 == IF data.image.has /\ data.image.kind = "list"
              THEN [d3 EXCEPT !.All_Images = Str(JoinComma(data.image.urls))]
              ELSE IF data.image.has /\ data.image.kind = "str"
              THEN [d3 EXCEPT !.All_Images = Str(data.image.urls)]
              ELSE d3
        priceRaises == data.offers.has /\ OffersUsed(data.offers)
                          /\ LdPrice(data.offers) = Raised
        d5 == IF data.offers.has /\ OffersUsed(data.offers)
              THEN [d4 EXCEPT !.Price_Inc_VAT = LdPrice(data.offers)] ELSE d4
    IN  IF imageRaises THEN [d |-> d3, raised |-> TRUE]
        ELSE IF priceRaises THEN [d |-> d4, raised |-> TRUE]
        ELSE [d |-> d5, raised |-> FALSE]

\* `for item in data: self._extract_json_ld(item, details)`: an exception
\* leaves the loop (the script's `except: continue`)
RECURSIVE ExtractItems(_, _)
ExtractItems(items, d) ==
    IF items = <<>> THEN d
    ELSE LET r == ExtractJsonLd(Head(items), d)
         IN  IF r.raised THEN r.d ELSE ExtractItems(Tail(items), r.d)

\* one script element
ExtractScript(script, d) ==
    IF ~ script.parses THEN d ELSE ExtractItems(script.items, d)

\* `for script in scripts`
RECURSIVE ExtractScripts(_, _)
ExtractScripts(ss, d) ==
    IF ss = <<>> THEN d
    ELSE ExtractScripts(Tail(ss), ExtractScript(Head(ss), d))

---------------------------------------------------------------------------
(* get_product_details, sections 3, 4.5 and 5: images, quantity,           *)
(* description and bullets.                                                *)

\* s.replace(sub, '')
RECURSIVE RemoveAll(_, _)
RemoveAll(s, sub) ==
    IF Len(s) < Len(sub) THEN s
    ELSE IF SubSeq(s, 1, Len(sub)) = sub
         THEN RemoveAll(SubSeq(s, Len(sub) + 1, Len(s)), sub)
         ELSE <<Head(s)>> \o RemoveAll(Tail(s), sub)

\* s.rstrip(',')
RECURSIVE RStripComma(_)
RStripComma(s) == IF s # <<>> /\ s[Len(s)] = ","
                  THEN RStripComma(SubSeq(s, 1, Len(s) - 1)) ELSE s

\* sep.join(parts)
RECURSIVE JoinSep(_, _)
JoinSep(parts, sep) == IF parts = <<>> THEN <<>>
                       ELSE IF Len(parts) = 1 THEN parts[1]
                       ELSE parts[1] \o sep \o JoinSep(Tail(parts), sep)

\* the high-resolution URL of a thumbnail's src
CleanSrc(src) ==
    RemoveAll(RemoveAll(RemoveAll(RStripComma(SplitBefore(src, "?")),
        <<"_", "s", "m", "a", "l", "l">>), <<"_", "m", "e", "d", "i", "u", "m">>), <<"_", "t", "h", "u", "m", "b", "n", "a", "i", "l">>)

\* `for img in img_elems`: the images list after the elements imgs
RECURSIVE GalleryImages(_, _)
GalleryImages(imgs, images) ==
    IF imgs = <<>> THEN images
    ELSE LET img == Head(imgs)
             src == IF img.src # <<>> THEN img.src ELSE img.dataSrc
             clean_src == CleanSrc(src)
             kept == /\ src # <<>>
                     /\ clean_src # <<>>
                     /\ ~ \E i \in 1..Len(images) : images[i] = clean_src
                     /\ ~ Contains(<<"p", "l", "a", "c", "e", "h", "o", "l", "d", "e", "r">>, Lower(clean_src))
         IN  GalleryImages(Tail(imgs),
                           IF kept THEN Append(images, clean_src) ELSE images)

\* section 3; a WebDriver exception leaves the section with details untouched
ImagesStep(d, c) ==
    LET images == GalleryImages(c.gallery, <<>>)
    IN  IF c.galleryOk /\ images # <<>>
        THEN [d EXCEPT !.All_Images = Str(JoinSep(images, <<",", " ">>))]
        ELSE d

\* section 4.5: qty_input.get_attribute("value")
QuantityStep(d, c) ==
    IF ~ c.qty.has THEN d
    ELSE IF c.qty.null THEN [d EXCEPT !.Quantity = PyNone]
    ELSE [d EXCEPT !.Quantity = Str(c.qty.text)]

\* s[:n]
Prefix(s, n) == SubSeq(s, 1, IF Len(s) < n THEN Len(s) ELSE n)

\* the characters of "\n" and of the bullet sign
NL     == "\n"
Bullet == "bullet"

MinParagraphLen == 30
ParagraphSample == 50
BulletSample    == 30

\* is_duplicate with the test of the collected part's sample left out
IsDuplicateOneWay(text, desc_parts) ==
    \E i \in 1..Len(desc_parts) :
        Contains(Prefix(text, ParagraphSample), desc_parts[i])

\* is_duplicate of a paragraph text against the collected parts
IsDuplicate(text, desc_parts) ==
    \E i \in 1..Len(desc_parts) :
        \/ Contains(Prefix(text, ParagraphSample), desc_parts[i])
        \/ Contains(Prefix(desc_parts[i], ParagraphSample), text)

\* `for selector in desc_selectors`: the first element whose text is long
\* enough and no duplicate is appended, and the loop is left
RECURSIVE ParagraphLoop(_, _)
ParagraphLoop(elems, desc_parts) ==
    IF elems = <<>> THEN desc_parts
    ELSE LET text == Strip(Head(elems).text)
         IN  IF /\ Head(elems).has
                /\ text # <<>>
                /\ Len(text) > MinParagraphLen
                /\ ~ IsDuplicate(text, desc_parts)
             THEN Append(desc_parts, text)
             ELSE ParagraphLoop(Tail(elems), desc_parts)

\* bullets_list: the stripped texts that are not empty
RECURSIVE BulletsList(_)
BulletsList(bs) ==
    IF bs = <<>> THEN <<>>
    ELSE IF Strip(Head(bs)) = <<>> THEN BulletsList(Tail(bs))
    ELSE <<Strip(Head(bs))>> \o BulletsList(Tail(bs))

\* "\n".join([f"<bullet sign> {b}" for b in bullets_list])
BulletText(bullets_list) ==
    JoinSep([i \in 1..Len(bullets_list) |-> <<Bullet, " ">> \o bullets_list[i]],
            <<NL>>)

\* the bullet block is appended unless the first bullet is already there
BulletsStep(bs, desc_parts) ==
    LET bullets_list == BulletsList(bs)
    IN  IF bullets_list = <<>> THEN desc_parts
        ELSE LET first_bullet_sample == Prefix(bullets_list[1], BulletSample)
             IN  IF \E i \in 1..Len(desc_parts) :
                        Contains(first_bullet_sample, desc_parts[i])
                 THEN desc_parts
                 ELSE Append(desc_parts,
                             <<"K", "e", "y", " ", "F", "e", "a", "t", "u", "r", "e", "s", ":">> \o <<NL>> \o BulletText(bullets_list))

\* current_desc.strip() raises for a description that is not a string
DescriptionRaises(d) == d.description # NA /\ d.description.k # "str"

\* the parts kept from the description already found
KeptParts(d) ==
    IF d.description # NA /\ Strip(d.description.s) # <<>>
    THEN <<Strip(d.description.s)>> ELSE <<>>

\* section 5 for a description that is a string
DescriptionStep(d, c) ==
    LET desc_parts == BulletsStep(c.bullets, ParagraphLoop(c.descs, KeptParts(d)))
    IN  IF desc_parts # <<>>
        THEN [d EXCEPT !.description = Str(JoinSep(desc_parts, <<NL, NL>>))]
        ELSE d

---------------------------------------------------------------------------
(* run_worker_batch and the products table of db_utils.                    *)

\* a listing item of parse_results_page: Name, Link, SKU, Supplier
ListingItem(name, link, sku) ==
    [Name |-> Str(name), Link |-> Str(link), SKU |-> Str(sku),
     Supplier |-> Str(<<"Screwfix">>)]

NoItem == [Link |-> NA]

EmptyTable == [u \in {} |-> NoItem]

NoReach == [db |-> EmptyTable, results |-> <<>>]

WorkIdle ==
    /\ atReach = NoReach
    /\ chunk = <<>>
    /\ idx = 0
    /\ results = <<>>
    /\ db = EmptyTable
    /\ itemBefore = NoItem
    /\ fetched = DefaultDetails
    /\ outcome = "none"

\* the merge as a plain item.update(details)
MergeDetailsOverwrite(item, d) ==
    [key \in DOMAIN item \cup DOMAIN d |->
        IF key \in DOMAIN d THEN d[key] ELSE item[key]]

\* the merge as a new dictionary of the known detail values only
MergeDetailsKnownOnly(item, d) ==
    [key \in { k \in DOMAIN d : d[k] # NA } |-> d[key]]

\* the "Smart Update" loop over details.items()
MergeDetails(item, d) ==
    [key \in DOMAIN item \cup DOMAIN d |->
        IF key \notin DOMAIN d THEN item[key]
        ELSE IF key \notin DOMAIN item THEN d[key]
        ELSE IF d[key] # NA THEN d[key]
        ELSE item[key]]

\* scraper.current_region of a worker's scraper
WorkerRegion == Str(<<"UK (Default)">>)

\* the "Region fix"
RegionFix(item) ==
    IF "Region" \in DOMAIN item /\ item["Region"] = Str(<<"UK (Default)">>)
    THEN [item EXCEPT !["Region"] = WorkerRegion]
    ELSE item

\* product.get(key)
Get(item, key) == IF key \in DOMAIN item THEN item[key] ELSE PyNone

\* the column values save_product binds
TableRow(product) ==
    [ url               |-> Get(product, "Link"),
      name              |-> Get(product, "Name"),
      sku               |-> Get(product, "SKU"),
      brand             |-> Get(product, "Brand"),
      price             |-> Get(product, "Price_Inc_VAT"),
      region            |-> Get(product, "Region"),
      supplier          |-> Get(product, "Supplier"),
      select_task       |-> Get(product, "Select Task"),
      all_images        |-> Get(product, "All_Images"),
      material_unit     |-> Get(product, "Material Unit"),
      description       |-> Get(product, "description"),
      quantity          |-> Get(product, "Quantity"),
      pieces_in_pack    |-> Get(product, "Pieces_in_Pack"),
      coverage_m2       |-> Get(product, "Coverage_M2"),
      volume_m3         |-> Get(product, "Volume_M3"),
      product_length_m  |-> Get(product, "Product_Length_M"),
      product_width     |-> Get(product, "Product_Width"),
      product_thickness |-> Get(product, "Product_Thickness"),
      product_weight_kg |-> Get(product, "Product_Weight_Kg"),
      product_type      |-> Get(product, "Product_Type"),
      material          |-> Get(product, "Material") ]

\* an exists query that never finds the URL
ProductExistsNever(table, url) == FALSE

\* product_exists(url)
product_exists(table, url) == url \in DOMAIN table

\* save_product(product): INSERT ... ON CONFLICT (url) DO UPDATE
save_product(table, product) ==
    LET row == TableRow(product)
    IN  [u \in DOMAIN table \cup {row.url} |->
            IF u = row.url THEN row ELSE table[u]]

---------------------------------------------------------------------------
(* Formatting of floats: f"{x:.4f}" and f"{x:.6f}".                        *)

DigitChar(i) == <<"0", "1", "2", "3", "4", "5", "6", "7", "8", "9">>[i + 1]

\* str(n) for an integer n >= 0
RECURSIVE IntChars(_)
IntChars(n) == IF n < 10 THEN <<DigitChar(n)>>
               ELSE Append(IntChars(n \div 10), DigitChar(n % 10))

\* n written with exactly w digits
RECURSIVE PadChars(_, _)
PadChars(n, w) == IF w = 0 THEN <<>>
                  ELSE Append(PadChars(n \div 10, w - 1), DigitChar(n % 10))

\* m / p rounded to the nearest integer, ties to even
RoundDiv(m, p) ==
    LET q == m \div p
        r == m % p
    IN  IF 2 * r > p THEN q + 1
        ELSE IF 2 * r = p THEN q + (q % 2)
        ELSE q

\* f"{x:.<places>f}" for a float x >= 0
FormatFixed(x, places) ==
    LET scaled == IF x.e <= places THEN x.m * Pow10(places - x.e)
                  ELSE RoundDiv(x.m, Pow10(x.e - places))
    IN  IntChars(scaled \div Pow10(places)) \o <<".">>
            \o PadChars(scaled % Pow10(places), places)

---------------------------------------------------------------------------
(* Field Classifier: the mapping logic applied to one specification row.   *)

\* material_types
MaterialTypes ==
    { <<"s", "a", "n", "d">>, <<"g", "r", "a", "v", "e", "l">>, <<"a", "g", "g", "r", "e", "g", "a", "t", "e">>, <<"b", "a", "l", "l", "a", "s", "t">>, <<"s", "t", "o", "n", "e">>, <<"c", "o", "b", "b", "l", "e">>,
      <<"p", "e", "b", "b", "l", "e">>, <<"t", "o", "p", "s", "o", "i", "l">>, <<"c", "h", "i", "p", "p", "i", "n", "g", "s">>, <<"b", "u", "l", "k", " ", "b", "a", "g">> }

\* any(m in item_name for m in material_types)
IsBulkName(item_name) == \E m \in MaterialTypes : Contains(m, item_name)

\* 0.0006 cubic metres per kg
DensityFactor == Num(6, 4)

EstSuffix  == <<" ", "m", "3", " ", "(", "E", "s", "t", ".", " ", "f", "r", "o", "m", " ", "d", "e", "n", "s", "i", "t", "y", ")">>
CalcSuffix == <<" ", "m", "3", " ", "(", "C", "a", "l", "c", "u", "l", "a", "t", "e", "d", ")">>

RowKey(row) == Lower(Strip(row.label))
RowVal(row) == Strip(row.value)

\* the row passes `len(cols) >= 2` and `if not val or val == '-': continue`
RowActive(row) ==
    /\ row.ncols >= 2
    /\ RowVal(row) # <<>>
    /\ RowVal(row) # <<"-">>

\* the estimate assigned whatever Volume_M3 holds
EstimateAssignedOverKnown(d, val) ==
    /\ Contains(<<"k", "g">>, Lower(val))
    /\ IsBulkName(Lower(d.Name.s))
    /\ ParseFloat(DigitFilter(val)) # Raised

\* the weight-density estimate is assigned by this row
EstimateAssigned(d, val) ==
    /\ Contains(<<"k", "g">>, Lower(val))
    /\ IsBulkName(Lower(d.Name.s))
    /\ ParseFloat(DigitFilter(val)) # Raised
    /\ d.Volume_M3 = NA

EstimateOf(val) ==
    Str(FormatFixed(Mul(ParseFloat(DigitFilter(val)), DensityFactor), 4) \o EstSuffix)

\* if "volume" in key
VolumeRow(d, val) ==
    IF Contains(<<"k", "g">>, Lower(val))
    THEN LET d1 == [d EXCEPT !.Product_Weight_Kg = Str(val)]
         IN  IF EstimateAssigned(d, val)
             THEN [d1 EXCEPT !.Volume_M3 = EstimateOf(val)]
             ELSE d1
    ELSE IF clean_vol(val) = Raised THEN d
    ELSE [d EXCEPT !.Volume_M3 = clean_vol(val)]

IsMetric(key) == Contains(<<"(", "m", "e", "t", "r", "i", "c", ")">>, key)

LengthRow(d, key, val) ==
    IF clean_dim(val) = Raised THEN d
    ELSE IF IsMetric(key) \/ d.Product_Length_M = NA
         THEN [d EXCEPT !.Product_Length_M = clean_dim(val)]
         ELSE d

WidthRow(d, key, val) ==
    IF clean_dim(val) = Raised THEN d
    ELSE IF IsMetric(key) \/ d.Product_Width = NA
         THEN [d EXCEPT !.Product_Width = clean_dim(val)]
         ELSE d

ThicknessRow(d, key, val) ==
    IF Contains(<<"p", "r", "o", "d", "u", "c", "t">>, key) \/ IsMetric(key)
    THEN IF clean_dim(val) = Raised THEN d
         ELSE IF IsMetric(key) \/ d.Product_Thickness = NA
              THEN [d EXCEPT !.Product_Thickness = clean_dim(val)]
              ELSE d
    ELSE d

WeightRow(d, key, val) ==
    IF ~ Contains(<<"s", "h", "i", "p", "p", "i", "n", "g">>, key) /\ ~ Contains(<<"p", "a", "c", "k", "a", "g", "e">>, key)
    THEN [d EXCEPT !.Product_Weight_Kg = Str(val)]
    ELSE d

CoverageRow(d, val) ==
    IF clean_area(val) = Raised THEN d
    ELSE [d EXCEPT !.Coverage_M2 = clean_area(val)]

\* the if/elif chain over the lower-cased label
MapRow(d, key, val) ==
    IF Contains(<<"v", "o", "l", "u", "m", "e">>, key) THEN VolumeRow(d, val)
    ELSE IF Contains(<<"p", "i", "e", "c", "e", "s", " ", "i", "n", " ", "p", "a", "c", "k">>, key)
         THEN [d EXCEPT !.Pieces_in_Pack = Str(val)]
    ELSE IF \/ Contains(<<"p", "r", "o", "d", "u", "c", "t", " ", "l", "e", "n", "g", "t", "h">>, key) \/ Contains(<<"l", "e", "n", "g", "t", "h">>, key)
            \/ Contains(<<"r", "o", "l", "l", " ", "l", "e", "n", "g", "t", "h">>, key) \/ Contains(<<"c", "a", "b", "l", "e", " ", "l", "e", "n", "g", "t", "h">>, key)
         THEN LengthRow(d, key, val)
    ELSE IF Contains(<<"w", "i", "d", "t", "h">>, key) THEN WidthRow(d, key, val)
    ELSE IF \/ Contains(<<"t", "h", "i", "c", "k", "n", "e", "s", "s">>, key) \/ Contains(<<"d", "e", "p", "t", "h">>, key)
            \/ Contains(<<"h", "e", "i", "g", "h", "t">>, key)
         THEN ThicknessRow(d, key, val)
    ELSE IF Contains(<<"w", "e", "i", "g", "h", "t">>, key) THEN WeightRow(d, key, val)
    ELSE IF Contains(<<"p", "r", "o", "d", "u", "c", "t", " ", "t", "y", "p", "e">>, key) \/ key = <<"t", "y", "p", "e">>
         THEN [d EXCEPT !.Product_Type = Str(val)]
    ELSE IF Contains(<<"c", "o", "v", "e", "r", "a", "g", "e">>, key) THEN CoverageRow(d, val)
    ELSE IF Contains(<<"m", "a", "t", "e", "r", "i", "a", "l">>, key) THEN [d EXCEPT !.Material = Str(val)]
    ELSE d

\* one iteration of `for row in rows`
RowOutcome(d, row) ==
    IF RowActive(row) THEN MapRow(d, RowKey(row), RowVal(row)) ELSE d

\* the row takes the direct volume parse (the else branch of the volume trap)
IsDirectVolumeRow(row) ==
    /\ RowActive(row)
    /\ Contains(<<"v", "o", "l", "u", "m", "e">>, RowKey(row))
    /\ ~ Contains(<<"k", "g">>, Lower(RowVal(row)))

\* the row takes the weight branch of the volume trap
IsVolumeKgRow(row) ==
    /\ RowActive(row)
    /\ Contains(<<"v", "o", "l", "u", "m", "e">>, RowKey(row))
    /\ Contains(<<"k", "g">>, Lower(RowVal(row)))

---------------------------------------------------------------------------
(* Derived-Value Engine: the automatic volume calculation.                 *)

\* the guard of the calculation without `l > 0 and w > 0 and t > 0`
DimensionsUsableNoSign(d) ==
    /\ d.Volume_M3 = NA
    /\ d.Product_Length_M # NA /\ d.Product_Width # NA /\ d.Product_Thickness # NA
    /\ d.Product_Length_M.k = "num" /\ d.Product_Width.k = "num"
    /\ d.Product_Thickness.k = "num"

DimensionsUsable(d) ==
    /\ d.Volume_M3 = NA
    /\ d.Product_Length_M # NA /\ d.Product_Width # NA /\ d.Product_Thickness # NA
    /\ d.Product_Length_M.k = "num" /\ d.Product_Width.k = "num"
    /\ d.Product_Thickness.k = "num"
    /\ Positive(d.Product_Length_M) /\ Positive(d.Product_Width)
    /\ Positive(d.Product_Thickness)

DeriveVolume(d) ==
    IF DimensionsUsable(d)
    THEN LET calc_vol == Mul(Mul(d.Product_Length_M, d.Product_Width),
                             d.Product_Thickness)
         IN  [d EXCEPT !.Volume_M3 = Str(FormatFixed(calc_vol, 6) \o CalcSuffix)]
    ELSE d

---------------------------------------------------------------------------
(* Inputs of the normalizers: a numeral (every string of at most MaxNumLen *)
(* characters over digits and the dot, well-formed or not, plus the        *)
(* numerals of the documented examples) followed by a unit token, and a    *)
(* few whole strings.                                                      *)

NumAlphabet == {"0", "2", "5", "."}

RECURSIVE StringsUpTo(_, _)
StringsUpTo(alphabet, n) ==
    IF n = 0 THEN {<<>>}
    ELSE LET shorter == StringsUpTo(alphabet, n - 1)
         IN  shorter \cup {Append(s, c) : s \in shorter, c \in alphabet}

Numerals == StringsUpTo(NumAlphabet, MaxNumLen)
                \cup {<<"1", ".", "2">>, <<"6">>, <<"2", "5", "0">>, <<"5", "0", "0">>}

\* unit tokens without a digit of their own
LengthTokens == {<<"m", "m">>, <<"c", "m">>, <<"m">>, <<" ", "i", "n", "c", "h">>,
                 <<"\"">>, <<"M", "M">>}
VolumeTokens == {<<"m", "l">>, <<" ", "l", "i", "t", "r", "e">>, <<"l", "t", "r">>,
                 <<" ", "L", "i", "t", "e", "r">>}
\* unit tokens that hold a digit
CubicTokens  == {<<" ", "m", "3">>, <<"m", "3">>}
AreaTokens   == {<<" ", "m", "2">>, <<"m", "m", "2">>, <<"c", "m", "2">>,
                 <<" ", "m", Sup2>>, <<" ", "m", "m", Sup2>>, <<"c", "m", Sup2>>}
OtherTokens  == {<<>>, <<"k", "g">>, <<" ", "a", "p", "p", "r", "o", "x", ".">>,
                 <<" ", "i", "n", "c", "h", " ", "d", "i", "a", "m", "e", "t", "e", "r">>,
                 <<" ", "(", "i", "m", "p", "e", "r", "i", "a", "l", ")">>}

UnitTokens == LengthTokens \cup VolumeTokens \cup CubicTokens \cup AreaTokens
                 \cup OtherTokens

WholeStrings == {NA.s, <<"n", "/", "a">>, <<"T", "B", "C">>, <<" ">>}

NormInputs == {n \o u : n \in Numerals, u \in UnitTokens} \cup WholeStrings

NormInit ==
    /\ RunIdle
    /\ pc = "norm_call"
    /\ nIn \in NormInputs
    /\ nOut = NA
    /\ nFn = "none"
    /\ RowsIdle
    /\ PageIdle
    /\ WorkIdle

CallCleanDim ==
    /\ pc = "norm_call"
    /\ pc' = "norm_done"
    /\ nFn' = "clean_dim"
    /\ nOut' = clean_dim(nIn)
    /\ UNCHANGED <<nIn, rowVars, pageVars, runVars, workVars>>

CallCleanVol ==
    /\ pc = "norm_call"
    /\ pc' = "norm_done"
    /\ nFn' = "clean_vol"
    /\ nOut' = clean_vol(nIn)
    /\ UNCHANGED <<nIn, rowVars, pageVars, runVars, workVars>>

CallCleanArea ==
    /\ pc = "norm_call"
    /\ pc' = "norm_done"
    /\ nFn' = "clean_area"
    /\ nOut' = clean_area(nIn)
    /\ UNCHANGED <<nIn, rowVars, pageVars, runVars, workVars>>

NormNext == CallCleanDim \/ CallCleanVol \/ CallCleanArea

SpecNorm == NormInit /\ [][NormNext]_vars

---------------------------------------------------------------------------
(* Claims about the Unit Normalizer (checked under SpecNorm).              *)

\* a numeral float() accepts
WellFormed(n) == ParseFloat(n) # Raised

\* the string holds no decimal digit
NoDecimalDigit(s) == ~ \E i \in 1..Len(s) : s[i] \in Digits

\* the documented factor of a unit token
TokenFactor(u) ==
    LET t == Strip(Lower(u))
    IN  CASE t = <<"m", "m">> -> Num(1, 3)
          [] t = <<"c", "m">> -> Num(1, 2)
          [] t = <<"m">> -> Num(1, 0)
          [] t = <<"i", "n", "c", "h">> -> Num(254, 4)
          [] t = <<"\"">> -> Num(254, 4)
          [] t = <<"m", "l">> -> Num(1, 6)
          [] t \in {<<"l", "i", "t", "r", "e">>, <<"l", "t", "r">>,
                    <<"l", "i", "t", "e", "r">>} -> Num(1, 3)
          [] t = <<"m", "3">> -> Num(1, 0)
          [] t \in {<<"m", "2">>, <<"m", Sup2>>} -> Num(1, 0)
          [] t \in {<<"m", "m", "2">>, <<"m", "m", Sup2>>} -> Num(1, 6)
          [] t \in {<<"c", "m", "2">>, <<"c", "m", Sup2>>} -> Num(1, 4)

\* C8 (as claimed): every call of clean_dim, clean_vol and clean_area returns
\* a number or "N/A" and never raises, and an input that is empty, equals
\* "N/A" or holds no digit yields "N/A".
C8_NormalizersNeverRaise ==
    pc = "norm_done" =>
        /\ nOut # Raised
        /\ (nOut.k = "num" \/ nOut = NA)
        /\ (nIn = <<>> \/ nIn = NA.s \/ NoDecimalDigit(nIn)) => nOut = NA

\* C9 (as claimed): the digit of a unit token is not part of the number: a
\* well-formed numeral followed by m3 gives numeral * 1 under clean_vol, and
\* followed by m2 / mm2 / cm2 gives numeral * factor under clean_area.
C9_UnitDigitsNotInNumber ==
    pc = "norm_done" =>
        \A n \in Numerals :
            /\ \A u \in CubicTokens :
                 (nIn = n \o u /\ WellFormed(n) /\ nFn = "clean_vol")
                     => nOut = Mul(ParseFloat(n), TokenFactor(u))
            /\ \A u \in AreaTokens :
                 (nIn = n \o u /\ WellFormed(n) /\ nFn = "clean_area")
                     => nOut = Mul(ParseFloat(n), TokenFactor(u))

\* C10: one well-formed numeral followed by one of the unit tokens mm, cm, m,
\* inch (clean_dim) or ml, litre (clean_vol) gives numeral * the token's
\* factor, in exact decimal arithmetic; in particular "250mm" -> 0.25,
\* "2.5cm" -> 0.025, "1.2m" -> 1.2, "6 inch" -> 0.1524, "500ml" -> 0.0005 and
\* "2 litre" -> 0.002.
C10_KnownConversions ==
    pc = "norm_done" =>
        /\ \A n \in Numerals :
            /\ \A u \in LengthTokens :
                 (nIn = n \o u /\ WellFormed(n) /\ nFn = "clean_dim")
                     => nOut = Mul(ParseFloat(n), TokenFactor(u))
            /\ \A u \in VolumeTokens :
                 (nIn = n \o u /\ WellFormed(n) /\ nFn = "clean_vol")
                     => nOut = Mul(ParseFloat(n), TokenFactor(u))
        /\ nFn = "clean_dim" =>
            /\ nIn = <<"2", "5", "0", "m", "m">> => nOut = Num(25, 2)
            /\ nIn = <<"2", ".", "5", "c", "m">> => nOut = Num(25, 3)
            /\ nIn = <<"1", ".", "2", "m">> => nOut = Num(12, 1)
            /\ nIn = <<"6", " ", "i", "n", "c", "h">> => nOut = Num(1524, 4)
        /\ nFn = "clean_vol" =>
            /\ nIn = <<"5", "0", "0", "m", "l">> => nOut = Num(5, 4)
            /\ nIn = <<"2", " ", "l", "i", "t", "r", "e">> => nOut = Num(2, 3)

\* C10 witness: "6 inch" has been converted by clean_dim to 0.1524.
C10_Witness ==
    /\ pc = "norm_done"
    /\ nFn = "clean_dim"
    /\ nIn = <<"6", " ", "i", "n", "c", "h">>
    /\ nOut = Num(1524, 4)

\* the decimal number an input holds: float() of its decimal digits and dots
NumberOf(s) ==
    LET RECURSIVE Keep(_)
        Keep(t) == IF t = <<>> THEN <<>>
                   ELSE IF Head(t) \in Digits \/ Head(t) = "."
                        THEN <<Head(t)>> \o Keep(Tail(t))
                        ELSE Keep(Tail(t))
    IN  ParseFloat(Keep(s))

\* the normalizer returned the input's number scaled by the factor
ScaledBy(factor) ==
    /\ nOut # Raised
    /\ nOut.k = "num"
    /\ nOut = Mul(NumberOf(nIn), factor)

\* the precedence of the unit tokens of clean_dim and clean_area
UnitPrecedence ==
    LET s == Lower(nIn)
        mm2 == Contains(<<"m", "m", "2">>, s) \/ Contains(<<"m", "m", Sup2>>, s)
        cm2 == Contains(<<"c", "m", "2">>, s) \/ Contains(<<"c", "m", Sup2>>, s)
    IN  /\ nFn = "clean_dim" =>
            /\ Contains(<<"m", "m">>, s) => ScaledBy(FactorMilli)
            /\ (Contains(<<"c", "m">>, s) /\ ~ Contains(<<"m", "m">>, s))
                   => ScaledBy(FactorCenti)
        /\ nFn = "clean_area" =>
            /\ mm2 => ScaledBy(FactorMicro)
            /\ (cm2 /\ ~ mm2) => ScaledBy(FactorCm2)

\* C11 (as claimed): a specific unit token is never shadowed by a general
\* one: clean_dim scales every input that holds a number and contains "mm" by
\* 0.001 and every one that contains "cm" but not "mm" by 0.01; clean_area
\* scales every input that holds a number and contains "mm2" or "mm" with a
\* superscript two by 1e-6, and every one that contains "cm2" or "cm" with a
\* superscript two but no such mm token by 0.0001.
C11_SpecificUnitFirst ==
    (pc = "norm_done" /\ NumberOf(nIn) # Raised /\ ~ NoDecimalDigit(nIn))
        => UnitPrecedence

\* the precedence on the inputs the normalizer accepts
C11_PrecedenceOnAcceptedInputs ==
    (pc = "norm_done" /\ NumberOf(nIn) # Raised /\ ~ NoDecimalDigit(nIn)
        /\ nOut # Raised) => UnitPrecedence

---------------------------------------------------------------------------
(* Specification rows of a product page and the names a page can carry.    *)

SandName  == <<"S", "h", "a", "r", "p", " ", "S", "a", "n", "d", " ", "2", "5", "k", "g", " ", "B", "u", "l", "k", " ", "B", "a", "g">>
BoardName == <<"P", "l", "a", "s", "t", "e", "r", "b", "o", "a", "r", "d", " ", "2", "4", "0", "0", "m", "m">>

PageNames == {Str(SandName), Str(BoardName)}

SpecRows ==
    { Row(2, <<"V", "o", "l", "u", "m", "e">>, <<"5", " ", "l", "i", "t", "r", "e">>),
      Row(2, <<"V", "o", "l", "u", "m", "e">>, <<"S", "e", "e", " ", "p", "a", "c", "k">>),
      Row(2, <<"V", "o", "l", "u", "m", "e", " ", "(", "k", "g", ")">>, <<"2", "5", "k", "g">>),
      Row(2, <<"V", "o", "l", "u", "m", "e", " ", "(", "k", "g", ")">>, <<"2", ".", "5", "k", "g", " ", "a", "p", "p", "r", "o", "x", ".">>),
      Row(2, <<"P", "i", "e", "c", "e", "s", " ", "i", "n", " ", "P", "a", "c", "k">>, <<"1", "0">>),
      Row(2, <<"P", "r", "o", "d", "u", "c", "t", " ", "L", "e", "n", "g", "t", "h">>, <<"2", "m">>),
      Row(2, <<"L", "e", "n", "g", "t", "h", " ", "(", "M", "e", "t", "r", "i", "c", ")">>, <<"2", "4", "0", "0", "m", "m">>),
      Row(2, <<"L", "e", "n", "g", "t", "h", " ", "(", "M", "e", "t", "r", "i", "c", ")">>, <<"S", "e", "e", " ", "p", "a", "c", "k">>),
      Row(2, <<"W", "i", "d", "t", "h">>, <<"0", ".", "5", "m">>),
      Row(2, <<"W", "i", "d", "t", "h">>, <<"-">>),
      Row(2, <<"W", "i", "d", "t", "h", " ", "(", "M", "e", "t", "r", "i", "c", ")">>, <<"6", "0", "0", "m", "m">>),
      Row(2, <<"W", "i", "d", "t", "h", " ", "(", "M", "e", "t", "r", "i", "c", ")">>, <<"S", "e", "e", " ", "p", "a", "c", "k">>),
      Row(2, <<"W", "i", "d", "t", "h", " ", "(", "M", "e", "t", "r", "i", "c", ")">>, <<"2", ".", "4", "m", " ", "x", " ", "1", ".", "2", "m">>),
      Row(2, <<"L", "e", "n", "g", "t", "h", " ", "x", " ", "W", "i", "d", "t", "h", " ", "(", "M", "e", "t", "r", "i", "c", ")">>, <<"6", "0", "0", "m", "m">>),
      Row(1, <<"W", "i", "d", "t", "h">>, <<>>),
      Row(2, <<"P", "r", "o", "d", "u", "c", "t", " ", "T", "h", "i", "c", "k", "n", "e", "s", "s">>, <<"2", "0", "m", "m">>),
      Row(2, <<"P", "r", "o", "d", "u", "c", "t", " ", "T", "h", "i", "c", "k", "n", "e", "s", "s">>, <<"0", "m", "m">>),
      Row(2, <<"T", "h", "i", "c", "k", "n", "e", "s", "s", " ", "(", "M", "e", "t", "r", "i", "c", ")">>, <<"1", "2", ".", "5", "m", "m">>),
      Row(2, <<"D", "e", "p", "t", "h">>, <<"2", "0", "m", "m">>),
      Row(2, <<"D", "e", "p", "t", "h", " ", "o", "f", " ", "C", "o", "v", "e", "r", "a", "g", "e">>, <<"5">>),
      Row(2, <<"W", "e", "i", "g", "h", "t">>, <<"2", "5", "k", "g">>),
      Row(2, <<"S", "h", "i", "p", "p", "i", "n", "g", " ", "W", "e", "i", "g", "h", "t">>, <<"3", "0", "k", "g">>),
      Row(2, <<"T", "y", "p", "e">>, <<"S", "h", "e", "e", "t">>),
      Row(2, <<"F", "i", "x", "i", "n", "g", " ", "T", "y", "p", "e">>, <<"S", "h", "e", "e", "t">>),
      Row(2, <<"C", "o", "v", "e", "r", "a", "g", "e">>, <<"5">>),
      Row(2, <<"C", "o", "v", "e", "r", "a", "g", "e">>, <<"S", "e", "e", " ", "p", "a", "c", "k">>),
      Row(2, <<"C", "o", "v", "e", "r", "a", "g", "e">>, <<"1", "2", ".", "5", " ", "m", Sup2>>),
      Row(2, <<"M", "a", "t", "e", "r", "i", "a", "l">>, <<"T", "i", "m", "b", "e", "r">>),
      Row(2, <<"C", "o", "l", "o", "u", "r">>, <<"T", "i", "m", "b", "e", "r">>) }

RowsInit ==
    /\ RunIdle
    /\ pc = "rows"
    /\ \E name \in PageNames : details = [DefaultDetails EXCEPT !.Name = name]
    /\ before = details
    /\ lastRow = NoRow
    /\ nRows = 0
    /\ directKnown = FALSE
    /\ estKnown = FALSE
    /\ nIn = <<>>
    /\ nOut = NA
    /\ nFn = "none"
    /\ PageIdle
    /\ WorkIdle

\* one specification row is read and mapped
ProcessRow ==
    /\ pc = "rows"
    /\ nRows < MaxRows
    /\ \E row \in SpecRows :
        /\ details' = RowOutcome(details, row)
        /\ lastRow' = row
        /\ directKnown' = (directKnown \/
                             (IsDirectVolumeRow(row) /\ clean_vol(RowVal(row)).k = "num"))
        /\ estKnown' = (estKnown \/
                          (IsVolumeKgRow(row) /\ EstimateAssigned(details, RowVal(row))))
    /\ before' = details
    /\ nRows' = nRows + 1
    /\ UNCHANGED <<pc, normVars, pageVars, runVars, workVars>>

\* the rows are exhausted: the automatic volume calculation runs and the
\* dictionary is returned
FinishDetails ==
    /\ pc = "rows"
    /\ pc' = "details_done"
    /\ details' = DeriveVolume(details)
    /\ before' = details
    /\ UNCHANGED <<lastRow, nRows, directKnown, estKnown, normVars, pageVars, runVars,
                   workVars>>

RowsNext == ProcessRow \/ FinishDetails

SpecClassify == RowsInit /\ [][RowsNext]_vars

---------------------------------------------------------------------------
(* Claims about the Field Classifier and the Derived-Value Engine (checked *)
(* under SpecClassify).                                                    *)

EndsWith(s, suffix) ==
    /\ Len(s) >= Len(suffix)
    /\ SubSeq(s, Len(s) - Len(suffix) + 1, Len(s)) = suffix

\* which source the value of Volume_M3 comes from
VolumeSource(d) ==
    IF d.Volume_M3 = NA THEN "none"
    ELSE IF d.Volume_M3.k = "num" THEN "direct"
    ELSE IF EndsWith(d.Volume_M3.s, EstSuffix) THEN "estimate"
    ELSE IF EndsWith(d.Volume_M3.s, CalcSuffix) THEN "calculated"
    ELSE "other"

\* the first predicate of the documented order that a lower-cased label
\* satisfies
FirstPredicate(key) ==
    IF Contains(<<"v", "o", "l", "u", "m", "e">>, key) THEN "volume"
    ELSE IF Contains(<<"p", "i", "e", "c", "e", "s", " ", "i", "n", " ", "p", "a", "c", "k">>, key) THEN "pieces"
    ELSE IF Contains(<<"l", "e", "n", "g", "t", "h">>, key) THEN "length"
    ELSE IF Contains(<<"w", "i", "d", "t", "h">>, key) THEN "width"
    ELSE IF /\ \/ Contains(<<"t", "h", "i", "c", "k", "n", "e", "s", "s">>, key) \/ Contains(<<"d", "e", "p", "t", "h">>, key)
               \/ Contains(<<"h", "e", "i", "g", "h", "t">>, key)
            /\ (Contains(<<"p", "r", "o", "d", "u", "c", "t">>, key) \/ Contains(<<"(", "m", "e", "t", "r", "i", "c", ")">>, key))
         THEN "thickness"
    ELSE IF /\ Contains(<<"w", "e", "i", "g", "h", "t">>, key)
            /\ ~ Contains(<<"s", "h", "i", "p", "p", "i", "n", "g">>, key) /\ ~ Contains(<<"p", "a", "c", "k", "a", "g", "e">>, key)
         THEN "weight"
    ELSE IF key = <<"t", "y", "p", "e">> \/ Contains(<<"p", "r", "o", "d", "u", "c", "t", " ", "t", "y", "p", "e">>, key) THEN "type"
    ELSE IF Contains(<<"c", "o", "v", "e", "r", "a", "g", "e">>, key) THEN "coverage"
    ELSE IF Contains(<<"m", "a", "t", "e", "r", "i", "a", "l">>, key) THEN "material"
    ELSE "none"

\* the last step mapped a row that passed the two skip tests
RowMapped == pc = "rows" /\ nRows > 0 /\ RowActive(lastRow)

LastKey == RowKey(lastRow)
LastVal == RowVal(lastRow)

\* C3 (as claimed): the returned Volume comes from the highest-priority
\* source that produced a known value for some row: direct parse before
\* weight-density estimate before dimensional calculation.
C3_VolumePriority ==
    pc = "details_done" =>
        /\ directKnown => VolumeSource(details) = "direct"
        /\ (~ directKnown /\ estKnown) => VolumeSource(details) = "estimate"
        /\ VolumeSource(details) = "calculated" => (~ directKnown /\ ~ estKnown)
        /\ VolumeSource(details) = "estimate" => ~ directKnown

\* C4 (as claimed): a mapped row assigns the field of the first documented
\* predicate its label satisfies, and changes nothing only when the label
\* satisfies none (rows whose value a normalizer rejects are left aside).
C4_FirstPredicateWins ==
    (/\ RowMapped
     /\ clean_dim(LastVal) # Raised
     /\ clean_vol(LastVal) # Raised
     /\ clean_area(LastVal) # Raised) =>
        LET c == FirstPredicate(LastKey)
            metric == Contains(<<"(", "m", "e", "t", "r", "i", "c", ")">>, LastKey)
        IN  /\ c = "volume" =>
                IF Contains(<<"k", "g">>, Lower(LastVal))
                THEN details.Product_Weight_Kg = Str(LastVal)
                ELSE details.Volume_M3 = clean_vol(LastVal)
            /\ c = "pieces" => details.Pieces_in_Pack = Str(LastVal)
            /\ (c = "length" /\ (metric \/ before.Product_Length_M = NA))
                   => details.Product_Length_M = clean_dim(LastVal)
            /\ (c = "width" /\ (metric \/ before.Product_Width = NA))
                   => details.Product_Width = clean_dim(LastVal)
            /\ (c = "thickness" /\ (metric \/ before.Product_Thickness = NA))
                   => details.Product_Thickness = clean_dim(LastVal)
            /\ c = "weight" => details.Product_Weight_Kg = Str(LastVal)
            /\ c = "type" => details.Product_Type = Str(LastVal)
            /\ c = "coverage" => details.Coverage_M2 = clean_area(LastVal)
            /\ c = "material" => details.Material = Str(LastVal)
            /\ c = "none" => details = before

\* the normalized value of a dimension: the number, or "N/A" for a value
\* that holds no parseable number
NormalizedDim(val) ==
    IF clean_dim(val) = Raised THEN NA ELSE clean_dim(val)

\* what a length / width / thickness row must leave in its field
DimensionAfter(old, key, val) ==
    IF Contains(<<"(", "m", "e", "t", "r", "i", "c", ")">>, key) THEN NormalizedDim(val)
    ELSE IF old = NA THEN NormalizedDim(val)
    ELSE old

\* C5 (as claimed): a row that the classifier routes to Width (its label
\* contains "width" and satisfies no earlier predicate) sets Width to the
\* normalized value when the label carries "(metric)", whatever Width held,
\* and otherwise changes Width only if it was "N/A"; the same for Length and
\* Thickness.
C5_MetricOverride ==
    RowMapped =>
        LET c == FirstPredicate(LastKey)
        IN  /\ c = "length" => details.Product_Length_M =
                   DimensionAfter(before.Product_Length_M, LastKey, LastVal)
            /\ c = "width" => details.Product_Width =
                   DimensionAfter(before.Product_Width, LastKey, LastVal)
            /\ c = "thickness" => details.Product_Thickness =
                   DimensionAfter(before.Product_Thickness, LastKey, LastVal)

\* the override rule on the rows whose value the normalizer accepts
C5_OverrideOnAcceptedValues ==
    (RowMapped /\ clean_dim(LastVal) # Raised) => C5_MetricOverride

---------------------------------------------------------------------------
(* Pages and structured-data scripts a product URL can serve.              *)

NameElems  == { [name |-> Elem(<<" ", "S", "h", "a", "r", "p", " ", "S", "a", "n", "d", " ", "2", "5", "k", "g", " ", "B", "u", "l", "k", " ", "B", "a", "g", " ", "(", "1", "2", "3", "4", "5", ")", " ">>),
                 ogTitle |-> NoElem, screenshotOk |-> TRUE],
                [name |-> NoElem,
                 ogTitle |-> Elem(<<"P", "l", "a", "s", "t", "e", "r", "b", "o", "a", "r", "d", " ", "2", "4", "0", "0", "m", "m">>), screenshotOk |-> TRUE] }

SkuElems   == { [skuElem |-> Elem(<<"(", "1", "2", "3", "4", "5", ")">>), skuMeta |-> NoElem],
                [skuElem |-> NoElem, skuMeta |-> NoElem] }

BrandElems == { Elem(<<" ", "D", "e", "W", "a", "l", "t", " ">>), NoElem }

PriceElems == { Elem(<<Pound, "9", ".", "9", "9">>), Elem(<<"C", "a", "l", "l", " ", "f", "o", "r", " ", "p", "r", "i", "c", "e">>), NoElem }

Pages ==
    { [name |-> n.name, ogTitle |-> n.ogTitle, screenshotOk |-> n.screenshotOk,
       skuElem |-> s.skuElem, skuMeta |-> s.skuMeta, urlTail |-> <<"9", "9", "9", "9", "9">>,
       brandAlt |-> b, price |-> p] :
         n \in NameElems, s \in SkuElems, b \in BrandElems, p \in PriceElems }

ItemFull ==
    LdItem(TRUE, "Product", JStr(<<"5", "4", "3", "2", "1">>), JStr(<<"M", "a", "k", "i", "t", "a">>), JStr(<<"LD text">>),
           ImageList(<<"img1", "img2">>), JDict(InnerNum(Num(125, 1))))
ItemNamedBrand ==
    LdItem(TRUE, "Product", Absent, JDict(InnerStr(<<"B", "o", "s", "c", "h">>)), Absent,
           ImageStr("img1"), JList(1, InnerStr(<<"7", ".", "5", "0">>)))
ItemUnnamedBrand ==
    LdItem(TRUE, "Product", Absent, JDict(NoInner), Absent, NoImage, Absent)
ItemNoPrice ==
    LdItem(TRUE, "Product", Absent, Absent, Absent, NoImage, JDict(NoInner))
ItemEmptyOffers ==
    LdItem(TRUE, "Product", Absent, Absent, Absent, ImageOther, JList(0, NoInner))
ItemListNoPrice ==
    LdItem(TRUE, "Product", Absent, Absent, Absent, NoImage, JList(2, NoInner))
ItemNullPrice ==
    LdItem(TRUE, "Product", Absent, JStr(<<"M", "a", "k", "i", "t", "a">>), JNull, NoImage,
           JDict(InnerNull))
ItemMixedImages ==
    LdItem(TRUE, "Product", JStr(<<"5", "4", "3", "2", "1">>), Absent, Absent,
           ImageMixed(<<"img1">>), JDict(InnerNum(Num(125, 1))))
ItemBreadcrumb ==
    LdItem(TRUE, "BreadcrumbList", JStr(<<"5", "4", "3", "2", "1">>), JStr(<<"M", "a", "k", "i", "t", "a">>), Absent,
           NoImage, JDict(InnerNum(Num(125, 1))))
ItemNotDict ==
    LdItem(FALSE, "none", Absent, Absent, Absent, NoImage, Absent)

LdItems == { ItemFull, ItemNamedBrand, ItemUnnamedBrand, ItemNoPrice,
             ItemEmptyOffers, ItemListNoPrice, ItemNullPrice, ItemMixedImages,
             ItemBreadcrumb, ItemNotDict }

PageScripts ==
    { Script(TRUE, FALSE, <<i>>) : i \in LdItems }
        \cup { Script(FALSE, FALSE, <<>>),
               Script(TRUE, TRUE, <<ItemNullPrice, ItemNamedBrand>>),
               Script(TRUE, TRUE, <<ItemNamedBrand, ItemUnnamedBrand>>) }

ScriptSeqs == UNION { [1..n -> PageScripts] : n \in 0..MaxScripts }

StructInit ==
    /\ RunIdle
    /\ pc = "page_loaded"
    /\ page \in Pages
    /\ scripts \in ScriptSeqs
    /\ content = NoContent
    /\ details = DefaultDetails
    /\ before = DefaultDetails
    /\ lastRow = NoRow
    /\ nRows = 0
    /\ directKnown = FALSE
    /\ estKnown = FALSE
    /\ nIn = <<>>
    /\ nOut = NA
    /\ nFn = "none"
    /\ WorkIdle

\* section 1: name, SKU, brand and price from the rendered page
BasicInfoStep ==
    /\ pc = "page_loaded"
    /\ pc' = "basic_done"
    /\ details' = BasicInfo(details, page)
    /\ before' = details
    /\ UNCHANGED <<lastRow, nRows, directKnown, estKnown, normVars, pageVars, runVars,
                   workVars>>

\* section 2: every ld+json script is parsed and extracted
JsonLdStep ==
    /\ pc = "basic_done"
    /\ pc' = "jsonld_done"
    /\ details' = ExtractScripts(scripts, details)
    /\ before' = details
    /\ UNCHANGED <<lastRow, nRows, directKnown, estKnown, normVars, pageVars, runVars,
                   workVars>>

StructNext == BasicInfoStep \/ JsonLdStep

SpecStructured == StructInit /\ [][StructNext]_vars

---------------------------------------------------------------------------
(* Claims about the page fields and the Structured-Data Extractor (checked *)
(* under SpecStructured).                                                  *)

\* C2 (as claimed): a Brand or Price that the rendered page has set to a
\* known value is still known after the structured data has been extracted
\* (Brand is not "N/A", Price is not 0.0).
C2_NoRegressionToUnknown ==
    pc = "jsonld_done" =>
        /\ before.Brand # NA => details.Brand # NA
        /\ before.Price_Inc_VAT # Zero => details.Price_Inc_VAT # Zero

\* get_product_details on a page whose specification table has no rows and
\* whose description, if any, is a string: the record it returns
get_product_details(p, ss, c) ==
    DeriveVolume(
        DescriptionStep(
            QuantityStep(
                ImagesStep(ExtractScripts(ss, BasicInfo(DefaultDetails, p)), c),
                c),
            c))

---------------------------------------------------------------------------
(* Whole product pages: display names, structured data, gallery, quantity  *)
(* input, description paragraphs and bullets.  The specification table of  *)
(* these pages has no rows.                                                *)

DisplayNames ==
    { <<" ", "S", "h", "a", "r", "p", " ", "S", "a", "n", "d", " ", "2", "5", "k", "g", " ", "B", "u", "l", "k", " ", "B", "a", "g", " ", "(", "1", "2", "3", "4", "5", ")", " ">>,
      <<"P", "l", "a", "s", "t", "e", "r", "b", "o", "a", "r", "d", " ", "2", "4", "0", "0", "m", "m">>,
      <<"W", "o", "o", "d", " ", "S", "c", "r", "e", "w", "s", " ", "(", "P", "a", "c", "k", " ", "o", "f", " ", "1", "0", "0", ")", " ", "(", "1", "2", "3", "4", "5", ")">>,
      <<"C", "a", "b", "l", "e", " ", "(", "3", " ", "c", "o", "r", "e", ")", " ", "1", "0", "m">> }

PlainPage(name) ==
    [name |-> name, ogTitle |-> NoElem, screenshotOk |-> TRUE,
     skuElem |-> Elem(<<"(", "1", "2", "3", "4", "5", ")">>), skuMeta |-> NoElem, urlTail |-> <<"9", "9", "9", "9", "9">>,
     brandAlt |-> Elem(<<"D", "e", "W", "a", "l", "t">>), price |-> Elem(<<Pound, "9", ".", "9", "9">>)]

RecordPages == { PlainPage(Elem(n)) : n \in DisplayNames } \cup { PlainPage(NoElem) }

SandPage == PlainPage(Elem(<<" ", "S", "h", "a", "r", "p", " ", "S", "a", "n", "d", " ", "2", "5", "k", "g", " ", "B", "u", "l", "k", " ", "B", "a", "g", " ", "(", "1", "2", "3", "4", "5", ")", " ">>))

SandText == <<"S", "h", "a", "r", "p", " ", "w", "a", "s", "h", "e", "d", " ", "s", "a", "n", "d", " ", "f", "o", "r", " ", "l", "a", "y", "i", "n", "g", " ", "b", "l", "o", "c", "k", " ", "p", "a", "v", "i", "n", "g", ".">>

ItemDescribed ==
    LdItem(TRUE, "Product", Absent, Absent, JStr(<<" ">> \o SandText \o <<" ">>),
           ImageList(<<"img1", "img2">>), Absent)
ItemDupImages ==
    LdItem(TRUE, "Product", Absent, Absent, Absent, ImageList(<<"img1", "img1">>), Absent)
ItemNullSku ==
    LdItem(TRUE, "Product", JNull, Absent, Absent, NoImage, Absent)
ItemNullDescription ==
    LdItem(TRUE, "Product", Absent, Absent, JNull, NoImage, Absent)
ItemBlankDescription ==
    LdItem(TRUE, "Product", Absent, Absent, JStr(<<" ", " ">>), NoImage, Absent)

RecordItems == { ItemFull, ItemDescribed, ItemDupImages, ItemNullSku,
                 ItemNullDescription, ItemBlankDescription, ItemMixedImages,
                 ItemNullPrice, ItemUnnamedBrand }

RecordScripts == { <<>> } \cup { <<Script(TRUE, FALSE, <<i>>)>> : i \in RecordItems }

GalleryImgs ==
    { Img(<<"a", "_", "s", "m", "a", "l", "l", ".", "j", "p", "g", "?", "w", "=", "1">>, <<>>),
      Img(<<"a", ".", "j", "p", "g">>, <<"z", ".", "j", "p", "g">>),
      Img(<<>>, <<"b", "_", "t", "h", "u", "m", "b", "n", "a", "i", "l", ".", "j", "p", "g", ",">>),
      Img(<<"P", "l", "a", "c", "e", "h", "o", "l", "d", "e", "r", ".", "p", "n", "g">>, <<>>),
      Img(<<>>, <<>>) }

Galleries == UNION { [1..n -> GalleryImgs] : n \in 0..MaxGallery }

QtyInputs == { NoQty, QtyElem(<<"1">>), QtyNoValue }

NoDescs == <<NoElem, NoElem, NoElem, NoElem, NoElem>>

DescElems ==
    { NoDescs,
      [NoDescs EXCEPT ![1] = Elem(<<" ", "W", "a", "s", "h", "e", "d", " ", "a", "n", "d", " ", "g", "r", "a", "d", "e", "d", " ", "t", "o", " ", "B", "S", " ", "E", "N", " ", "1", "3", "1", "3", "9", ",", " ", "f", "o", "r", " ", "u", "s", "e", " ", "u", "n", "d", "e", "r", " ", "b", "l", "o", "c", "k", " ", "p", "a", "v", "i", "n", "g", ".", " ">>)],
      [NoDescs EXCEPT ![1] = Elem(<<"C", "o", "a", "r", "s", "e", " ", "s", "a", "n", "d", ".">>),
                      ![3] = Elem(<<"W", "a", "s", "h", "e", "d", " ", "a", "n", "d", " ", "g", "r", "a", "d", "e", "d", " ", "t", "o", " ", "B", "S", " ", "E", "N", " ", "1", "3", "1", "3", "9", ",", " ", "f", "o", "r", " ", "u", "s", "e", " ", "u", "n", "d", "e", "r", " ", "b", "l", "o", "c", "k", " ", "p", "a", "v", "i", "n", "g", ".">>)],
      [NoDescs EXCEPT ![1] = Elem(<<"S", "h", "a", "r", "p", " ", "w", "a", "s", "h", "e", "d", " ", "s", "a", "n", "d", " ", "f", "o", "r", " ", "l", "a", "y", "i", "n", "g", " ", "b", "l", "o", "c", "k", " ", "p", "a", "v", "i", "n", "g", ".", " ", "A", "l", "s", "o", " ", "f", "o", "r", " ", "s", "c", "r", "e", "e", "d", "s", " ", "a", "n", "d", " ", "r", "e", "n", "d", "e", "r", "s", ".">>),
                      ![2] = Elem(<<"S", "u", "p", "p", "l", "i", "e", "d", " ", "i", "n", " ", "a", " ", "h", "a", "n", "d", "y", " ", "b", "a", "g", " ", "t", "h", "a", "t", " ", "i", "s", " ", "e", "a", "s", "y", " ", "t", "o", " ", "c", "a", "r", "r", "y", ".">>)],
      [NoDescs EXCEPT ![2] = Elem(<<"S", "h", "a", "r", "p", " ", "w", "a", "s", "h", "e", "d", " ", "s", "a", "n", "d", " ", "f", "o", "r", " ", "l", "a", "y", "i", "n", "g", " ", "b", "l", "o", "c", "k">>)] }

BulletLists ==
    { <<>>,
      << <<"W", "a", "s", "h", "e", "d", " ", "a", "n", "d", " ", "g", "r", "a", "d", "e", "d">>, <<" ", " ">>, <<" ", "2", "5", "k", "g", " ", "b", "a", "g", " ">> >>,
      << <<"S", "h", "a", "r", "p", " ", "w", "a", "s", "h", "e", "d", " ", "s", "a", "n", "d">>, <<"2", "5", "k", "g", " ", "b", "a", "g">> >> }

RecordInputs ==
    { [page |-> p, scripts |-> s, content |-> NoContent] :
          p \in RecordPages, s \in {<<>>, <<Script(TRUE, FALSE, <<ItemFull>>)>>} }
    \cup
    { [page |-> SandPage, scripts |-> s,
       content |-> [NoContent EXCEPT !.gallery = g, !.qty = q]] :
          s \in RecordScripts, g \in Galleries, q \in QtyInputs }
    \cup
    { [page |-> SandPage, scripts |-> <<Script(TRUE, FALSE, <<ItemFull>>)>>,
       content |-> [NoContent EXCEPT !.gallery = g, !.galleryOk = FALSE]] :
          g \in Galleries }
    \cup
    { [page |-> SandPage, scripts |-> s,
       content |-> [NoContent EXCEPT !.descs = ds, !.bullets = bs]] :
          s \in RecordScripts, ds \in DescElems, bs \in BulletLists }

RecordInit ==
    /\ RunIdle
    /\ pc = "page_loaded"
    /\ \E i \in RecordInputs :
          /\ page = i.page
          /\ scripts = i.scripts
          /\ content = i.content
    /\ details = DefaultDetails
    /\ before = DefaultDetails
    /\ lastRow = NoRow
    /\ nRows = 0
    /\ directKnown = FALSE
    /\ estKnown = FALSE
    /\ nIn = <<>>
    /\ nOut = NA
    /\ nFn = "none"
    /\ WorkIdle

\* section 3: the gallery's images
ImagesSection ==
    /\ pc = "jsonld_done"
    /\ pc' = "images_done"
    /\ details' = ImagesStep(details, content)
    /\ before' = details
    /\ UNCHANGED <<lastRow, nRows, directKnown, estKnown, normVars, pageVars, runVars,
                   workVars>>

\* section 4 finds no row; section 4.5: the quantity input
QuantitySection ==
    /\ pc = "images_done"
    /\ pc' = "quantity_done"
    /\ details' = QuantityStep(details, content)
    /\ before' = details
    /\ UNCHANGED <<lastRow, nRows, directKnown, estKnown, normVars, pageVars, runVars,
                   workVars>>

\* section 5: description and bullets
DescriptionSection ==
    /\ pc = "quantity_done"
    /\ ~ DescriptionRaises(details)
    /\ pc' = "description_done"
    /\ details' = DescriptionStep(details, content)
    /\ before' = details
    /\ UNCHANGED <<lastRow, nRows, directKnown, estKnown, normVars, pageVars, runVars,
                   workVars>>

\* section 5 raises out of get_product_details: no record is returned
DescriptionFails ==
    /\ pc = "quantity_done"
    /\ DescriptionRaises(details)
    /\ pc' = "details_raised"
    /\ before' = details
    /\ UNCHANGED <<details, lastRow, nRows, directKnown, estKnown, normVars,
                   pageVars, runVars, workVars>>

\* sections 6 and 7: the automatic volume calculation, `return details`
ReturnDetails ==
    /\ pc = "description_done"
    /\ pc' = "returned"
    /\ details' = DeriveVolume(details)
    /\ before' = details
    /\ UNCHANGED <<lastRow, nRows, directKnown, estKnown, normVars, pageVars, runVars,
                   workVars>>

RecordNext ==
    \/ BasicInfoStep
    \/ JsonLdStep
    \/ ImagesSection
    \/ QuantitySection
    \/ DescriptionSection
    \/ DescriptionFails
    \/ ReturnDetails

SpecRecord == RecordInit /\ [][RecordNext]_vars

---------------------------------------------------------------------------
(* Claims about whole records (checked under SpecRecord).                  *)

\* the structured-data blocks of type Product the page carries
ProductBlocks ==
    { b \in UNION { {scripts[i].items[j] : j \in 1..Len(scripts[i].items)} :
                        i \in { n \in 1..Len(scripts) : scripts[n].parses } } :
          b.isDict /\ b.type = "Product" }

\* what a block supplies for a field, and the value it supplies
SuppliesSku(b)   == b.sku.has /\ b.sku.kind = "str"
SuppliesBrand(b) ==
    /\ b.brand.has
    /\ \/ b.brand.kind = "str"
       \/ b.brand.kind = "dict" /\ b.brand.inner.has /\ b.brand.inner.kind = "str"
BrandSupplied(b) == IF b.brand.kind = "str" THEN b.brand.v ELSE b.brand.inner.v
SuppliesDescription(b) ==
    b.description.has /\ b.description.kind = "str" /\ Strip(b.description.v.s) # <<>>
SuppliesImages(b) ==
    /\ b.image.has
    /\ b.image.urls # <<>>
    /\ b.image.kind = "str" \/ (b.image.kind = "list" /\ b.image.allStr)
SuppliesPrice(b) ==
    /\ b.offers.has
    /\ b.offers.kind = "dict" \/ (b.offers.kind = "list" /\ b.offers.n > 0)
    /\ b.offers.inner.has
    /\ b.offers.inner.kind = "num"

\* a string begins with another
StartsWith(s, prefix) == Len(s) >= Len(prefix) /\ SubSeq(s, 1, Len(prefix)) = prefix

\* the record's images are a block's images
ImagesFromBlock ==
    \E b \in ProductBlocks :
        SuppliesImages(b) /\ details.All_Images = Str(JoinSep([i \in 1..Len(b.image.urls) |-> <<b.image.urls[i]>>], <<",", " ">>))

\* SKU, brand, description and price of the record are a block's
OtherFieldsFromBlock ==
    /\ (\E b \in ProductBlocks : SuppliesSku(b))
           => \E b \in ProductBlocks : SuppliesSku(b) /\ details.SKU = b.sku.v
    /\ (\E b \in ProductBlocks : SuppliesBrand(b))
           => \E b \in ProductBlocks :
                  SuppliesBrand(b) /\ details.Brand = BrandSupplied(b)
    /\ (\E b \in ProductBlocks : SuppliesDescription(b))
           => \E b \in ProductBlocks :
                  /\ SuppliesDescription(b)
                  /\ details.description.k = "str"
                  /\ StartsWith(details.description.s, Strip(b.description.v.s))
    /\ (\E b \in ProductBlocks : SuppliesPrice(b))
           => \E b \in ProductBlocks :
                  SuppliesPrice(b) /\ details.Price_Inc_VAT = b.offers.inner.v

\* C12 (as claimed): the returned record carries, for SKU, brand,
\* description (as the leading part), images and price, the value a
\* structured-data block of type Product supplies, whatever the rendered
\* page supplied for the field.
C12_StructuredDataAuthoritative ==
    pc = "returned" =>
        /\ OtherFieldsFromBlock
        /\ (\E b \in ProductBlocks : SuppliesImages(b)) => ImagesFromBlock

\* the blocks none of whose members makes _extract_json_ld raise
NoBlockRaises ==
    \A b \in ProductBlocks :
        ExtractJsonLd(b, DefaultDetails).raised = FALSE

\* SKU, brand, description and price are the block's when no block raises
C12_AuthoritativeButImages ==
    (pc = "returned" /\ NoBlockRaises) => OtherFieldsFromBlock

\* a block with the members whose extraction fails taken out: an image
\* list with an element that is no string, a price that is no number, a
\* description that is no string
WithoutFailing(b) ==
    [b EXCEPT
       !.image = IF b.image.has /\ b.image.kind = "list" /\ ~ b.image.allStr
                 THEN NoImage ELSE @,
       !.offers = IF b.offers.has /\ OffersUsed(b.offers) /\ LdPrice(b.offers) = Raised
                  THEN Absent ELSE @,
       !.description = IF b.description.has /\ b.description.kind # "str"
                       THEN Absent ELSE @]

\* the page's scripts with the failing members taken out
ScriptsWithoutFailing ==
    [i \in 1..Len(scripts) |->
        [scripts[i] EXCEPT !.items =
            [j \in 1..Len(scripts[i].items) |-> WithoutFailing(scripts[i].items[j])]]]

\* C13 (as claimed): get_product_details always returns a record, and the
\* record is the one the same page gives with the failing members absent:
\* the failing field holds what it would hold unsupplied (its unknown
\* sentinel when no other source supplies it) and every other field its
\* value without the failure.
C13_FailuresAreLocal ==
    /\ pc # "details_raised"
    /\ pc = "returned" =>
           details = get_product_details(page, ScriptsWithoutFailing, content)

\* the 18 fields of the record schema
SchemaFields ==
    { "Name", "Price_Inc_VAT", "All_Images", "Region", "SKU", "Supplier", "Brand",
      "Quantity", "Pieces_in_Pack", "Coverage_M2", "Volume_M3", "Product_Length_M",
      "Product_Width", "Product_Thickness", "Product_Weight_Kg", "Product_Type",
      "Material", "description" }

\* a record has every schema field, none of them null
CompleteRecord(r) ==
    /\ SchemaFields \subseteq DOMAIN r
    /\ \A f \in SchemaFields : r[f] # PyNone

\* C14 (as claimed): every record get_product_details returns contains the
\* 18 schema fields, each holding a found value or its unknown sentinel,
\* never null and never absent.
C14_EveryFieldPresent ==
    pc = "returned" => CompleteRecord(details)

\* every schema field is a key of every returned record
C14_NoFieldAbsent ==
    pc = "returned" => SchemaFields \subseteq DOMAIN details

\* the trimmed display name of the page
DisplayName == Strip(page.name.text)

\* the position of the last "(" of a text, 0 when it has none
LastOpen(t) ==
    LET opens == { i \in 1..Len(t) : t[i] = "(" }
    IN  IF opens = {} THEN 0 ELSE CHOOSE i \in opens : \A j \in opens : j <= i

\* the text ends with a parenthesized group
HasParenSuffix(t) == t # <<>> /\ t[Len(t)] = ")" /\ LastOpen(t) > 0

\* the number of "(" in a text
CountOpen(t) == Cardinality({ i \in 1..Len(t) : t[i] = "(" })

\* C15 (as claimed): when the display name ends with a parenthesized group,
\* Name is the text before that group, trimmed; when it has no parenthesized
\* suffix, Name is the display name unchanged.
C15_NameWithoutSuffix ==
    (pc = "basic_done" /\ page.name.has) =>
        IF HasParenSuffix(DisplayName)
        THEN details.Name =
                 Str(Strip(SubSeq(DisplayName, 1, LastOpen(DisplayName) - 1)))
        ELSE details.Name = Str(DisplayName)

\* the cleanup on display names with no parenthesis but those of one suffix
C15_SingleSuffixNames ==
    (pc = "basic_done" /\ page.name.has
        /\ CountOpen(DisplayName) <= (IF HasParenSuffix(DisplayName) THEN 1 ELSE 0))
        => C15_NameWithoutSuffix

\* the structured-data description section 5 starts from, trimmed, as the
\* first part when it is not empty
FirstPart ==
    IF before.description # NA /\ Strip(before.description.s) # <<>>
    THEN <<Strip(before.description.s)>> ELSE <<>>

\* the trimmed texts of the page's candidate paragraphs
Candidates ==
    { Strip(content.descs[i].text) :
          i \in { n \in 1..Len(content.descs) : content.descs[n].has } }

\* a candidate may be appended after the collected parts
MayAppend(t, collected) ==
    /\ Len(t) > 30
    /\ \A i \in 1..Len(collected) :
          /\ ~ Contains(SubSeq(t, 1, IF Len(t) < 50 THEN Len(t) ELSE 50), collected[i])
          /\ ~ Contains(SubSeq(collected[i], 1,
                   IF Len(collected[i]) < 50 THEN Len(collected[i]) ELSE 50), t)

\* the page's bullets, trimmed, without the empty ones
PageBullets ==
    LET RECURSIVE NonEmpty(_)
        NonEmpty(bs) == IF bs = <<>> THEN <<>>
                        ELSE IF Strip(Head(bs)) = <<>> THEN NonEmpty(Tail(bs))
                        ELSE <<Strip(Head(bs))>> \o NonEmpty(Tail(bs))
    IN  NonEmpty(content.bullets)

\* the labelled bullet block
KeyFeatures ==
    LET RECURSIVE Lines(_)
        Lines(bs) == IF bs = <<>> THEN <<>>
                     ELSE <<"\n", "bullet", " ">> \o Head(bs) \o Lines(Tail(bs))
    IN  <<"K", "e", "y", " ", "F", "e", "a", "t", "u", "r", "e", "s", ":">> \o Lines(PageBullets)

\* the first bullet's first 30 characters occur in a collected part
BulletsCovered(collected) ==
    LET b == PageBullets[1]
        sample == SubSeq(b, 1, IF Len(b) < 30 THEN Len(b) ELSE 30)
    IN  \E i \in 1..Len(collected) : Contains(sample, collected[i])

\* the parts joined by a blank line
Assembled(parts) ==
    LET RECURSIVE Join(_)
        Join(ps) == IF Len(ps) = 1 THEN ps[1]
                    ELSE ps[1] \o <<"\n", "\n">> \o Join(Tail(ps))
    IN  Str(Join(parts))

\* C16: the assembled description is the non-empty structured-data
\* description (first), then at most one page paragraph, which is longer
\* than 30 characters and whose first 50 characters do not occur in a
\* collected part, nor a collected part's first 50 characters in it, then
\* the bullet block labelled "Key Features:" unless the first 30 characters
\* of the first bullet occur in a collected part; with no part at all the
\* description is left as it was.
C16_DescriptionAssembly ==
    pc = "description_done" =>
        \E para \in {<<>>} \cup { <<t>> : t \in { c \in Candidates : MayAppend(c, FirstPart) } } :
            LET collected == FirstPart \o para
                parts == IF PageBullets # <<>> /\ ~ BulletsCovered(collected)
                         THEN Append(collected, KeyFeatures) ELSE collected
            IN  IF parts = <<>> THEN details.description = before.description
                ELSE details.description = Assembled(parts)

\* C16 witness: a structured-data description, a duplicate paragraph that
\* was passed over, a second paragraph and the bullet block, joined in order.
C16_Witness ==
    /\ pc = "description_done"
    /\ before.description = Str(<<" ">> \o SandText \o <<" ">>)
    /\ details.description = Str(SandText \o <<"\n", "\n">>
           \o <<"S", "u", "p", "p", "l", "i", "e", "d", " ", "i", "n", " ", "a", " ", "h", "a", "n", "d", "y", " ", "b", "a", "g", " ", "t", "h", "a", "t", " ", "i", "s", " ", "e", "a", "s", "y", " ", "t", "o", " ", "c", "a", "r", "r", "y", ".">> \o <<"\n", "\n">>
           \o <<"K", "e", "y", " ", "F", "e", "a", "t", "u", "r", "e", "s", ":">> \o <<"\n", "bullet", " ">> \o <<"W", "a", "s", "h", "e", "d", " ", "a", "n", "d", " ", "g", "r", "a", "d", "e", "d">>
           \o <<"\n", "bullet", " ">> \o <<"2", "5", "k", "g", " ", "b", "a", "g">>)

\* the URLs of an image list written with ", " between them
RECURSIVE SplitComma(_, _)
SplitComma(s, current) ==
    IF s = <<>> THEN <<current>>
    ELSE IF Len(s) >= 2 /\ s[1] = "," /\ s[2] = " "
         THEN <<current>> \o SplitComma(SubSeq(s, 3, Len(s)), <<>>)
         ELSE SplitComma(Tail(s), Append(current, Head(s)))

\* an image list has no URL twice and no placeholder image
CleanImageList(v) ==
    v # NA =>
        LET urls == SplitComma(v.s, <<>>)
        IN  /\ \A i, j \in 1..Len(urls) : urls[i] = urls[j] => i = j
            /\ \A i \in 1..Len(urls) : ~ Contains(<<"p", "l", "a", "c", "e", "h", "o", "l", "d", "e", "r">>, Lower(urls[i]))

\* C17 (as claimed): the image list of every returned record holds no URL
\* twice and no placeholder image, whether the structured data or the page
\* gallery supplied it.
C17_ImagesDistinct ==
    pc = "returned" => CleanImageList(details.All_Images)

\* the image list the gallery supplies holds no URL twice and no placeholder
C17_GalleryImagesDistinct ==
    (pc = "images_done" /\ details.All_Images # before.All_Images)
        => CleanImageList(details.All_Images)

---------------------------------------------------------------------------
(* A worker's batch: the listing items of its chunk, what the table holds  *)
(* when it starts, and what get_product_details returns for a URL.         *)

ItemA == ListingItem(<<"Listing name A">>, <<"/p/A">>, <<"11111">>)
ItemB == ListingItem(<<"Listing name B">>, <<"/p/B">>, <<"22222">>)

ListingItems == {ItemA, ItemB}

Chunks == UNION { [1..n -> ListingItems] : n \in 0..MaxChunk }

StoredTables == { EmptyTable, save_product(EmptyTable, ItemA) }

\* dictionaries get_product_details returns: the name was found or not, the
\* brand, price and volume were found or not
FetchedDetails ==
    { [DefaultDetails EXCEPT !.Name = n, !.SKU = Str(<<"54321">>), !.Brand = b.brand,
                             !.Price_Inc_VAT = b.price, !.Volume_M3 = b.volume] :
        n \in {NA, Str(SandName)},
        b \in { [brand |-> NA, price |-> Zero, volume |-> NA],
                [brand |-> Str(<<"DeWalt">>), price |-> Num(999, 2),
                 volume |-> Num(5, 3)] } }

WorkerInit ==
    /\ RunIdle
    /\ pc = "worker_setup"
    /\ chunk \in Chunks
    /\ db \in StoredTables
    /\ idx = 0
    /\ results = <<>>
    /\ itemBefore = NoItem
    /\ fetched = DefaultDetails
    /\ outcome = "none"
    /\ atReach = NoReach
    /\ RowsIdle
    /\ PageIdle
    /\ nIn = <<>>
    /\ nOut = NA
    /\ nFn = "none"

\* the browser opens the base URL, cookies and location are handled
WorkerSetupOk ==
    /\ pc = "worker_setup"
    /\ pc' = "worker_loop"
    /\ UNCHANGED <<normVars, rowVars, pageVars, runVars, workVars>>

\* the setup raises: "Worker setup failed", the worker returns its results
WorkerSetupFails ==
    /\ pc = "worker_setup"
    /\ pc' = "worker_done"
    /\ UNCHANGED <<normVars, rowVars, pageVars, runVars, workVars>>

\* the iteration's item is already in the table: it is skipped
WorkerSkips ==
    /\ pc = "worker_loop"
    /\ idx < Len(chunk)
    /\ product_exists(db, chunk[idx + 1]["Link"])
    /\ idx' = idx + 1
    /\ itemBefore' = chunk[idx + 1]
    /\ outcome' = "skipped"
    /\ atReach' = [db |-> db, results |-> results]
    /\ UNCHANGED <<pc, chunk, results, db, fetched, normVars, rowVars, pageVars, runVars>>

\* a worker whose batch ends at the first item that raises
WorkerItemFailsEndsBatch ==
    /\ pc = "worker_loop"
    /\ idx < Len(chunk)
    /\ pc' = "worker_done"
    /\ idx' = idx + 1
    /\ itemBefore' = chunk[idx + 1]
    /\ outcome' = "failed"
    /\ atReach' = [db |-> db, results |-> results]
    /\ UNCHANGED <<chunk, results, db, fetched, normVars, rowVars, pageVars, runVars>>

\* product_exists or get_product_details raises: the failure is logged
WorkerItemFails ==
    /\ pc = "worker_loop"
    /\ idx < Len(chunk)
    /\ idx' = idx + 1
    /\ itemBefore' = chunk[idx + 1]
    /\ outcome' = "failed"
    /\ atReach' = [db |-> db, results |-> results]
    /\ UNCHANGED <<pc, chunk, results, db, fetched, normVars, rowVars, pageVars, runVars>>

\* the item is fetched, merged, appended to the results and saved; saved is
\* FALSE when save_product fails (its own except, or get_connection raising
\* into the worker's except)
WorkerScrapes ==
    /\ pc = "worker_loop"
    /\ idx < Len(chunk)
    /\ ~ product_exists(db, chunk[idx + 1]["Link"])
    /\ \E d \in FetchedDetails, saved \in BOOLEAN :
        LET item == RegionFix(MergeDetails(chunk[idx + 1], d))
        IN  /\ fetched' = d
            /\ chunk' = [chunk EXCEPT ![idx + 1] = item]
            /\ results' = Append(results, item)
            /\ db' = IF saved THEN save_product(db, item) ELSE db
            /\ outcome' = IF saved THEN "saved" ELSE "save_failed"
    /\ itemBefore' = chunk[idx + 1]
    /\ atReach' = [db |-> db, results |-> results]
    /\ idx' = idx + 1
    /\ UNCHANGED <<pc, normVars, rowVars, pageVars, runVars>>

\* the loop is over: scraper.close(), return worker_results
WorkerReturns ==
    /\ pc = "worker_loop"
    /\ idx = Len(chunk)
    /\ pc' = "worker_done"
    /\ UNCHANGED <<normVars, rowVars, pageVars, runVars, workVars>>

WorkerNext ==
    \/ WorkerSetupOk
    \/ WorkerSetupFails
    \/ WorkerSkips
    \/ WorkerItemFails
    \/ WorkerScrapes
    \/ WorkerReturns

SpecWorker == WorkerInit /\ [][WorkerNext]_vars

---------------------------------------------------------------------------
(* Claims about run_worker_batch (checked under SpecWorker).               *)

\* the last iteration merged a fetched dictionary into its item
Merged == outcome \in {"saved", "save_failed"}

\* the item the last iteration appended
MergedItem == results[Len(results)]

\* C1: after the merge, every key of the fetched dictionary that the item
\* already had keeps the item's value when the fetched value is "N/A" and
\* holds the fetched value otherwise, so a known value is never replaced by
\* "N/A"; a key the item did not have holds the fetched value, "N/A"
\* included; the item's other keys are untouched.
C1_MergeKeepsKnown ==
    Merged =>
        /\ DOMAIN MergedItem = DOMAIN itemBefore \cup DOMAIN fetched
        /\ \A key \in DOMAIN fetched :
            /\ (key \in DOMAIN itemBefore /\ fetched[key] = NA)
                   => MergedItem[key] = itemBefore[key]
            /\ (key \in DOMAIN itemBefore /\ fetched[key] # NA)
                   => MergedItem[key] = fetched[key]
            /\ key \notin DOMAIN itemBefore => MergedItem[key] = fetched[key]
            /\ (key \in DOMAIN itemBefore /\ itemBefore[key] # NA)
                   => MergedItem[key] # NA
        /\ \A key \in DOMAIN itemBefore \ DOMAIN fetched :
               MergedItem[key] = itemBefore[key]

\* C1 witness: the fetched Name was "N/A" and the item kept its listing
\* name, while the absent key Brand was added as "N/A".
C1_Witness ==
    /\ Merged
    /\ fetched.Name = NA
    /\ itemBefore["Name"] = Str(<<"Listing name A">>)
    /\ MergedItem["Name"] = Str(<<"Listing name A">>)
    /\ "Brand" \notin DOMAIN itemBefore
    /\ MergedItem["Brand"] = NA

\* the last iteration reached an item whose URL the table already held
ReachedHeld ==
    /\ idx > 0
    /\ outcome # "none"
    /\ itemBefore["Link"] \in DOMAIN atReach.db

\* C19 (as claimed): a product whose URL the table already holds when the
\* worker reaches it is fetched again, and its fresh extraction merged and
\* persisted, rather than passed over.
C19_RefetchOnRescrape ==
    ReachedHeld => outcome \in {"saved", "save_failed", "failed"}

\* C20: an iteration that reaches an item whose URL is in the table fetches
\* nothing, appends nothing to the results and writes nothing; and no step of
\* the batch changes or removes a row the table holds.
C20_ExistingIsSkipped ==
    [][ /\ \A u \in DOMAIN db : u \in DOMAIN db' /\ db'[u] = db[u]
        /\ (idx' = idx + 1 /\ chunk[idx + 1]["Link"] \in DOMAIN db) =>
              /\ outcome' \in {"skipped", "failed"}
              /\ results' = results
              /\ fetched' = fetched
              /\ chunk' = chunk
              /\ db' = db ]_vars

\* C20 witness: an item whose URL was in the table has been skipped, with
\* the table and the results as they were.
C20_Witness ==
    /\ ReachedHeld
    /\ outcome = "skipped"
    /\ itemBefore = ItemA
    /\ db = atReach.db
    /\ results = atReach.results

---------------------------------------------------------------------------
(* The merge rule on its own: the "Smart Update" loop applied to an item   *)
(* and a details dictionary drawn from records with known and unknown      *)
(* fields, the item itself included.                                       *)

MergeRecords ==
    { [DefaultDetails EXCEPT !.Name = r.name, !.SKU = r.sku, !.Brand = r.brand,
                             !.Volume_M3 = r.volume, !.Price_Inc_VAT = r.price] :
        r \in [name : {NA, Str(SandName)}, sku : {NA, Str(<<"54321">>)},
               brand : {NA, Str(<<"DeWalt">>)}, volume : {NA, Num(5, 3)},
               price : {Zero, Num(999, 2)}] }

MergeInit ==
    /\ RunIdle
    /\ pc = "merge_call"
    /\ chunk \in { <<i>> : i \in MergeRecords \cup ListingItems }
    /\ fetched \in MergeRecords
    /\ idx = 0
    /\ results = <<>>
    /\ db = EmptyTable
    /\ itemBefore = NoItem
    /\ outcome = "none"
    /\ atReach = NoReach
    /\ RowsIdle
    /\ PageIdle
    /\ nIn = <<>>
    /\ nOut = NA
    /\ nFn = "none"

\* `for key, value in details.items()` on the item, in place
MergeCall ==
    /\ pc = "merge_call"
    /\ pc' = "merge_done"
    /\ itemBefore' = chunk[1]
    /\ chunk' = <<MergeDetails(chunk[1], fetched)>>
    /\ UNCHANGED <<idx, results, db, fetched, outcome, atReach, normVars, rowVars,
                   pageVars, runVars>>

MergeNext == MergeCall

SpecMerge == MergeInit /\ [][MergeNext]_vars

\* C18: merging a record with itself under the worker merge rule leaves the
\* record as it was: every field keeps its value, none becomes "N/A", none
\* is added or lost.
C18_MergeIdempotent ==
    (pc = "merge_done" /\ fetched = itemBefore) =>
        /\ chunk[1] = itemBefore
        /\ DOMAIN chunk[1] = DOMAIN itemBefore
        /\ \A key \in DOMAIN itemBefore :
               itemBefore[key] # NA => chunk[1][key] # NA

\* C18 witness: a record with a known Name and an unknown Brand has been
\* merged with itself and is unchanged.
C18_Witness ==
    /\ pc = "merge_done"
    /\ fetched = itemBefore
    /\ itemBefore["Name"] = Str(SandName)
    /\ itemBefore["Brand"] = NA
    /\ chunk[1] = itemBefore

---------------------------------------------------------------------------
(* Known values across the rows of one page (checked under SpecClassify).  *)

\* the fields a specification row fills through a normalizer
MeasuredFields ==
    {"Product_Length_M", "Product_Width", "Product_Thickness", "Volume_M3",
     "Coverage_M2"}

\* C25 (as claimed): mapping a specification row never changes Length,
\* Width, Thickness, Volume or Coverage from a known value to "N/A".
C25_KnownNeverBecomesUnknown ==
    RowMapped =>
        \A f \in MeasuredFields : before[f] # NA => details[f] # NA

\* what holds instead: a known value becomes "N/A" only through a row whose
\* value the normalizer of that field answers with "N/A"
C25_LostOnlyToUnparsedValue ==
    RowMapped =>
        \A f \in MeasuredFields :
            (before[f] # NA /\ details[f] = NA) =>
                \/ clean_dim(LastVal) = NA
                \/ clean_vol(LastVal) = NA
                \/ clean_area(LastVal) = NA

---------------------------------------------------------------------------
(* Inch values (checked under SpecNorm).                                   *)

\* the value denotes inches: it names inches and neither mm nor cm
DenotesInches(s) ==
    /\ \/ Contains(<<"i", "n", "c", "h">>, s)
       \/ Contains(<<"\"">>, s)
       \/ Contains(<<"i", "m", "p", "e", "r", "i", "a", "l">>, s)
    /\ ~ Contains(<<"m", "m">>, s)
    /\ ~ Contains(<<"c", "m">>, s)

\* C26 (as claimed): clean_dim multiplies the number of every value that
\* denotes inches (it contains "inch", a double-quote mark or "imperial", and
\* neither "mm" nor "cm") by 0.0254, whatever other words surround the number.
C26_InchesScaled ==
    (/\ pc = "norm_done"
     /\ nFn = "clean_dim"
     /\ DenotesInches(Lower(nIn))
     /\ NumberOf(nIn) # Raised) => ScaledBy(FactorInch)

\* what holds instead: the inch factor is applied when the value also holds
\* no letter m at all
C26_InchesWithoutLetterM ==
    (/\ pc = "norm_done"
     /\ nFn = "clean_dim"
     /\ DenotesInches(Lower(nIn))
     /\ ~ Contains(<<"m">>, Lower(nIn))
     /\ NumberOf(nIn) # Raised) => ScaledBy(FactorInch)

---------------------------------------------------------------------------
(* Failures inside one worker's batch (checked under SpecWorker).          *)

\* C21: a failure while one item is processed (exists query, fetch,
\* extraction or save) is confined to that item: the iteration ends, the
\* worker stays in its loop and its next iteration takes the next item of
\* the chunk, unchanged; a failed save leaves the item in the results and the
\* table as it was; the loop is left only when every item has had its
\* iteration.
C21_FailureConfined ==
    [][ /\ (pc = "worker_loop" /\ idx < Len(chunk)) =>
            /\ pc' = "worker_loop"
            /\ idx' = idx + 1
            /\ itemBefore' = chunk[idx + 1]
            /\ Len(chunk') = Len(chunk)
            /\ \A i \in (idx + 2)..Len(chunk) : chunk'[i] = chunk[i]
            /\ outcome' \in {"skipped", "failed", "saved", "save_failed"}
            /\ outcome' = "failed" => (results' = results /\ db' = db)
            /\ outcome' = "save_failed" =>
                   (results' = Append(results, chunk'[idx + 1]) /\ db' = db)
        /\ (pc = "worker_loop" /\ pc' = "worker_done") => idx = Len(chunk)
      ]_vars

\* C21 witness: the first item of a chunk of two failed (it is neither in the
\* table nor in the results) and the second one has been fetched and saved.
C21_Witness ==
    /\ pc = "worker_loop"
    /\ Len(chunk) = 2
    /\ idx = 2
    /\ outcome = "saved"
    /\ chunk[1]["Link"] \notin DOMAIN db
    /\ Len(results) = 1
    /\ results[1]["Link"] = chunk[2]["Link"]

---------------------------------------------------------------------------
(* scrape_products_parallel: the split of the product list into chunks.    *)

MaxProducts == 5
MaxWorkers == 3

\* chunk_size = max(1, len(products_list) // max_workers)
ChunkSize(products_list, max_workers) ==
    LET q == Len(products_list) \div max_workers
    IN  IF q > 1 THEN q ELSE 1

\* [products_list[i:i + chunk_size] for i in range(0, len(products_list), chunk_size)]
MakeChunks(products_list, max_workers) ==
    LET chunk_size == ChunkSize(products_list, max_workers)
        n == (Len(products_list) + chunk_size - 1) \div chunk_size
    IN  [k \in 1..n |->
            SubSeq(products_list, (k - 1) * chunk_size + 1,
                   IF k * chunk_size < Len(products_list)
                   THEN k * chunk_size ELSE Len(products_list))]

ProductLists == UNION { [1..n -> ListingItems] : n \in 0..MaxProducts }

ChunksInit ==
    /\ StoreIdle
    /\ ExportIdle
    /\ pc = "pool_call"
    /\ products \in ProductLists
    /\ maxWorkers \in 1..MaxWorkers
    /\ chunks = <<>>
    /\ workers = <<>>
    /\ fully_scraped_data = <<>>
    /\ order = <<>>
    /\ calls = <<>>
    /\ RowsIdle
    /\ PageIdle
    /\ WorkIdle
    /\ nIn = <<>>
    /\ nOut = NA
    /\ nFn = "none"

\* the list is split (lines 968-969)
SplitProducts ==
    /\ pc = "pool_call"
    /\ pc' = "pool_chunked"
    /\ chunks' = MakeChunks(products, maxWorkers)
    /\ UNCHANGED <<products, maxWorkers, workers, fully_scraped_data, order, calls,
                   storeVars, exportVars, normVars, rowVars, pageVars, workVars>>

ChunksNext == SplitProducts

SpecChunks == ChunksInit /\ [][ChunksNext]_vars

RECURSIVE Concat(_)
Concat(seqs) == IF seqs = <<>> THEN <<>> ELSE Head(seqs) \o Concat(Tail(seqs))

\* the chunks are contiguous slices that cover the list, each item once
ContiguousCover ==
    /\ Concat(chunks) = products
    /\ \A k \in 1..Len(chunks) : chunks[k] # <<>>

\* C28 (as claimed): for every list length and every max_workers >= 1 the
\* chunks are contiguous, contain every product exactly once, and there are
\* at most max_workers of them.
C28_OneChunkPerWorker ==
    pc = "pool_chunked" =>
        /\ ContiguousCover
        /\ Len(chunks) <= maxWorkers

\* what holds instead: the chunks are contiguous and cover the list, there
\* are fewer than twice max_workers of them, and more than max_workers
\* exactly when the list is longer than max_workers and its length is not a
\* multiple of max_workers
C28_ChunkCount ==
    pc = "pool_chunked" =>
        /\ ContiguousCover
        /\ Len(chunks) < 2 * maxWorkers
        /\ Len(chunks) > maxWorkers <=>
               /\ Len(products) > maxWorkers
               /\ Len(products) % maxWorkers # 0

---------------------------------------------------------------------------
(* scrape_products_parallel: the pool of run_worker_batch tasks over one   *)
(* shared table.  A task is queued, set up, then for each item of its      *)
(* chunk queries the table, fetches, merges and saves; the steps of        *)
(* different tasks interleave.                                             *)

MaxPoolProducts == 2

\* max_workers of the call in scrape_category_recursive
PoolWorkers == 2

PoolLists == UNION { [1..n -> ListingItems] : n \in 0..MaxPoolProducts }

\* dictionaries get_product_details returns to a task
PoolDetails == { d \in FetchedDetails : d.Brand = NA /\ d.Name = NA }

Urls == { item["Link"] : item \in ListingItems }

NoCalls == [u \in Urls |-> [fetch |-> 0, save |-> 0]]

Task(items) == [st |-> "queued", pos |-> 0, out |-> <<>>, items |-> items]

\* the task occupies one of the pool's threads
Running(k) == workers[k].st \in {"setup", "check", "fetch", "save"}

\* the task's future is done
Done(k) == workers[k].st \in {"returned", "raised"}

\* the item the task's loop is at
ItemAt(k) == workers[k].items[workers[k].pos + 1]

PoolInit ==
    /\ StoreIdle
    /\ ExportIdle
    /\ pc = "pool_call"
    /\ products \in PoolLists
    /\ maxWorkers = PoolWorkers
    /\ chunks = <<>>
    /\ workers = <<>>
    /\ fully_scraped_data = <<>>
    /\ order = <<>>
    /\ calls = NoCalls
    /\ db \in StoredTables
    /\ atReach = NoReach
    /\ chunk = <<>>
    /\ idx = 0
    /\ results = <<>>
    /\ itemBefore = NoItem
    /\ fetched = DefaultDetails
    /\ outcome = "none"
    /\ RowsIdle
    /\ PageIdle
    /\ nIn = <<>>
    /\ nOut = NA
    /\ nFn = "none"

\* what a pool step leaves alone besides the variables it names
PoolRest ==
    <<products, maxWorkers, chunks, chunk, idx, results, itemBefore, fetched,
      outcome, atReach, storeVars, exportVars, normVars, rowVars, pageVars>>

\* the list is split and one task per chunk is submitted (lines 968-980)
PoolSubmits ==
    /\ pc = "pool_call"
    /\ pc' = "pool_running"
    /\ chunks' = MakeChunks(products, maxWorkers)
    /\ workers' = [k \in DOMAIN chunks' |-> Task(chunks'[k])]
    /\ UNCHANGED <<products, maxWorkers, fully_scraped_data, order, calls, db,
                   chunk, idx, results, itemBefore, fetched, outcome, atReach,
                   storeVars, exportVars, normVars, rowVars, pageVars>>

\* a free thread of the pool takes a queued task
TaskStarts ==
    /\ pc = "pool_running"
    /\ \E k \in DOMAIN workers :
        /\ workers[k].st = "queued"
        /\ Cardinality({j \in DOMAIN workers : Running(j)}) < maxWorkers
        /\ workers' = [workers EXCEPT ![k].st = "setup"]
    /\ UNCHANGED <<pc, fully_scraped_data, order, calls, db, PoolRest>>

\* run_worker_batch raises: ScrewfixScraper(headless=True) fails before the
\* try (line 1001)
TaskRaises ==
    /\ pc = "pool_running"
    /\ \E k \in DOMAIN workers :
        /\ workers[k].st = "setup"
        /\ workers' = [workers EXCEPT ![k].st = "raised"]
    /\ UNCHANGED <<pc, fully_scraped_data, order, calls, db, PoolRest>>

\* the setup inside the try raises: "Worker setup failed", the task returns
\* its empty worker_results
TaskSetupFails ==
    /\ pc = "pool_running"
    /\ \E k \in DOMAIN workers :
        /\ workers[k].st = "setup"
        /\ workers' = [workers EXCEPT ![k].st = "returned"]
    /\ UNCHANGED <<pc, fully_scraped_data, order, calls, db, PoolRest>>

\* the setup is through: the loop over the chunk begins
TaskSetupOk ==
    /\ pc = "pool_running"
    /\ \E k \in DOMAIN workers :
        /\ workers[k].st = "setup"
        /\ workers' = [workers EXCEPT ![k].st = "check"]
    /\ UNCHANGED <<pc, fully_scraped_data, order, calls, db, PoolRest>>

\* product_exists answers for the item the loop is at: held rows are skipped
TaskQueries ==
    /\ pc = "pool_running"
    /\ \E k \in DOMAIN workers :
        /\ workers[k].st = "check"
        /\ workers[k].pos < Len(workers[k].items)
        /\ workers' =
               IF product_exists(db, ItemAt(k)["Link"])
               THEN [workers EXCEPT ![k].pos = @ + 1]
               ELSE [workers EXCEPT ![k].st = "fetch"]
    /\ UNCHANGED <<pc, fully_scraped_data, order, calls, db, PoolRest>>

\* product_exists raises: the item's handler logs, the loop goes on
TaskQueryFails ==
    /\ pc = "pool_running"
    /\ \E k \in DOMAIN workers :
        /\ workers[k].st = "check"
        /\ workers[k].pos < Len(workers[k].items)
        /\ workers' = [workers EXCEPT ![k].pos = @ + 1]
    /\ UNCHANGED <<pc, fully_scraped_data, order, calls, db, PoolRest>>

\* get_product_details is called with the item's URL; it returns and the
\* item is merged and appended to worker_results, or it raises
TaskFetches ==
    /\ pc = "pool_running"
    /\ \E k \in DOMAIN workers :
        /\ workers[k].st = "fetch"
        /\ calls' = [calls EXCEPT ![ItemAt(k)["Link"]].fetch = @ + 1]
        /\ \/ \E d \in PoolDetails :
                LET item == RegionFix(MergeDetails(ItemAt(k), d))
                IN  workers' = [workers EXCEPT
                                   ![k].st = "save",
                                   ![k].items[workers[k].pos + 1] = item,
                                   ![k].out = Append(@, item)]
           \/ workers' = [workers EXCEPT ![k].st = "check", ![k].pos = @ + 1]
    /\ UNCHANGED <<pc, fully_scraped_data, order, db, PoolRest>>

\* save_product upserts the item's row and commits
TaskSaves ==
    /\ pc = "pool_running"
    /\ \E k \in DOMAIN workers :
        /\ workers[k].st = "save"
        /\ db' = save_product(db, ItemAt(k))
        /\ calls' = [calls EXCEPT ![ItemAt(k)["Link"]].save = @ + 1]
        /\ workers' = [workers EXCEPT ![k].st = "check", ![k].pos = @ + 1]
    /\ UNCHANGED <<pc, fully_scraped_data, order, PoolRest>>

\* save_product fails: nothing is written, the loop goes on
TaskSaveFails ==
    /\ pc = "pool_running"
    /\ \E k \in DOMAIN workers :
        /\ workers[k].st = "save"
        /\ workers' = [workers EXCEPT ![k].st = "check", ![k].pos = @ + 1]
    /\ UNCHANGED <<pc, fully_scraped_data, order, calls, db, PoolRest>>

\* the loop is over: scraper.close() and return worker_results, or close()
\* raises out of the finally block
TaskEnds ==
    /\ pc = "pool_running"
    /\ \E k \in DOMAIN workers :
        /\ workers[k].st = "check"
        /\ workers[k].pos = Len(workers[k].items)
        /\ \/ workers' = [workers EXCEPT ![k].st = "returned"]
           \/ workers' = [workers EXCEPT ![k].st = "raised"]
    /\ UNCHANGED <<pc, fully_scraped_data, order, calls, db, PoolRest>>

\* a collection whose future.result() is not guarded: a task's exception
\* leaves scrape_products_parallel
FutureResultRaises ==
    /\ pc = "pool_running"
    /\ \E k \in DOMAIN workers :
        /\ Done(k)
        /\ \A i \in DOMAIN order : order[i] # k
        /\ order' = Append(order, k)
        /\ IF workers[k].st = "returned"
           THEN fully_scraped_data' = fully_scraped_data \o workers[k].out /\ pc' = pc
           ELSE fully_scraped_data' = fully_scraped_data /\ pc' = "pool_raised"
    /\ UNCHANGED <<workers, calls, db, PoolRest>>

\* as_completed yields a finished future: its result extends
\* fully_scraped_data, its exception is logged (lines 982-988)
FutureCollected ==
    /\ pc = "pool_running"
    /\ \E k \in DOMAIN workers :
        /\ Done(k)
        /\ \A i \in DOMAIN order : order[i] # k
        /\ order' = Append(order, k)
        /\ fully_scraped_data' =
               IF workers[k].st = "returned"
               THEN fully_scraped_data \o workers[k].out
               ELSE fully_scraped_data
    /\ UNCHANGED <<pc, workers, calls, db, PoolRest>>

\* every future has been collected: the executor is left, the data returned
PoolReturns ==
    /\ pc = "pool_running"
    /\ Len(order) = Len(workers)
    /\ pc' = "pool_done"
    /\ UNCHANGED <<workers, fully_scraped_data, order, calls, db, PoolRest>>

PoolNext ==
    \/ PoolSubmits
    \/ TaskStarts
    \/ TaskRaises
    \/ TaskSetupFails
    \/ TaskSetupOk
    \/ TaskQueries
    \/ TaskQueryFails
    \/ TaskFetches
    \/ TaskSaves
    \/ TaskSaveFails
    \/ TaskEnds
    \/ FutureCollected
    \/ PoolReturns

SpecPool == PoolInit /\ [][PoolNext]_vars

---------------------------------------------------------------------------
(* Claims about the pool (checked under SpecPool).                         *)

\* the worker_results of the tasks that returned, in the order of collection
RECURSIVE ReturnedBatches(_)
ReturnedBatches(o) ==
    IF o = <<>> THEN <<>>
    ELSE (IF workers[Head(o)].st = "returned" THEN workers[Head(o)].out ELSE <<>>)
             \o ReturnedBatches(Tail(o))

\* C22: a task that raises, or whose setup fails, does not abort the other
\* tasks: scrape_products_parallel never raises, what it has gathered is
\* exactly the batches of the collected tasks that returned, in the order of
\* collection, and when it returns every task has been collected once and
\* every task that returned went through its whole chunk unless its own
\* setup failed.
C22_WorkerFailureIsolated ==
    /\ pc # "pool_raised"
    /\ pc \in {"pool_running", "pool_done"} =>
           fully_scraped_data = ReturnedBatches(order)
    /\ pc = "pool_done" =>
        /\ Len(order) = Len(workers)
        /\ \A k \in DOMAIN workers :
            /\ Done(k)
            /\ Cardinality({i \in DOMAIN order : order[i] = k}) = 1
            /\ workers[k].st = "returned" =>
                   \/ workers[k].pos = Len(workers[k].items)
                   \/ workers[k].pos = 0 /\ workers[k].out = <<>>

\* C22 witness: the pool has returned; the task collected first had raised
\* and a task collected after it returned a record, which is in the data.
C22_Witness ==
    /\ pc = "pool_done"
    /\ Len(order) = 2
    /\ workers[order[1]].st = "raised"
    /\ workers[order[2]].st = "returned"
    /\ workers[order[2]].out # <<>>
    /\ fully_scraped_data = workers[order[2]].out

\* C27 (as claimed): within one call no URL is passed to get_product_details
\* more than once and no URL is upserted more than once, whatever the
\* interleaving, also when the list names a URL twice.
C27_EachUrlOnce ==
    pc \in {"pool_running", "pool_done"} =>
        \A u \in Urls : calls[u].fetch <= 1 /\ calls[u].save <= 1

\* what holds instead: each URL is fetched and upserted at most once when no
\* two entries of the list name the same URL
C27_OnceForDistinctUrls ==
    (/\ pc \in {"pool_running", "pool_done"}
     /\ \A i, j \in DOMAIN products :
            i # j => products[i]["Link"] # products[j]["Link"]) =>
        \A u \in Urls : calls[u].fetch <= 1 /\ calls[u].save <= 1

---------------------------------------------------------------------------
(* save_product under concurrent callers.  The table is the sequence of    *)
(* its rows (the serial id is a row's position); each caller runs the one  *)
(* INSERT ... ON CONFLICT statement in its own transaction and commits.    *)

MaxSaves == 2

\* the columns named by DO UPDATE SET (lines 99-118)
SetColumns ==
    {"name", "sku", "brand", "price", "region", "supplier", "select_task",
     "all_images", "material_unit", "description", "quantity",
     "pieces_in_pack", "coverage_m2", "volume_m3", "product_length_m",
     "product_width", "product_thickness", "product_weight_kg",
     "product_type", "material"}

\* an upsert that leaves a held row as it is (ON CONFLICT DO NOTHING)
InsertOrKeep(rows, product) ==
    LET new == TableRow(product)
    IN  IF \E i \in DOMAIN rows : rows[i].url = new.url
        THEN rows
        ELSE Append(rows, new)

\* INSERT INTO products (...) VALUES (...) ON CONFLICT (url) DO UPDATE SET ...
InsertOnConflict(rows, product) ==
    LET new == TableRow(product)
    IN  IF \E i \in DOMAIN rows : rows[i].url = new.url
        THEN [i \in DOMAIN rows |->
                 IF rows[i].url = new.url
                 THEN [c \in DOMAIN rows[i] |->
                          IF c \in SetColumns THEN new[c] ELSE rows[i][c]]
                 ELSE rows[i]]
        ELSE Append(rows, new)

\* the records the workers pass to save_product: merged items
StoreRecords ==
    { RegionFix(MergeDetails(item, d)) : item \in ListingItems, d \in FetchedDetails }

NoCommit == [u \in Urls |-> NoItem]

Writer == [st |-> "ready", rec |-> NoItem, n |-> 0, ok |-> FALSE]

StoreInit ==
    /\ PoolIdle
    /\ ExportIdle
    /\ pc = "store"
    /\ \/ tableRows = <<>> /\ lastCommit = NoCommit
       \/ \E r \in StoreRecords :
            /\ tableRows = <<TableRow(r)>>
            /\ lastCommit = [NoCommit EXCEPT ![r["Link"]] = r]
    /\ writers = [w \in 1..PoolWorkers |-> Writer]
    /\ RowsIdle
    /\ PageIdle
    /\ WorkIdle
    /\ nIn = <<>>
    /\ nOut = NA
    /\ nFn = "none"

StoreRest == <<pc, poolVars, exportVars, normVars, rowVars, pageVars, workVars>>

\* cur.execute of the statement: it waits while another transaction holds
\* an uncommitted write of the same url
SaveExecutes ==
    /\ pc = "store"
    /\ \E w \in DOMAIN writers, r \in StoreRecords :
        /\ writers[w].st = "ready"
        /\ writers[w].n < MaxSaves
        /\ \A v \in DOMAIN writers :
               writers[v].st = "executed" => writers[v].rec["Link"] # r["Link"]
        /\ writers' = [writers EXCEPT ![w] = [st |-> "executed", rec |-> r,
                                               n |-> @.n, ok |-> FALSE]]
    /\ UNCHANGED <<tableRows, lastCommit, StoreRest>>

\* conn.commit(): the statement's effect becomes the table's state
SaveCommits ==
    /\ pc = "store"
    /\ \E w \in DOMAIN writers :
        /\ writers[w].st = "executed"
        /\ tableRows' = InsertOnConflict(tableRows, writers[w].rec)
        /\ lastCommit' = [lastCommit EXCEPT ![writers[w].rec["Link"]] = writers[w].rec]
        /\ writers' = [writers EXCEPT ![w].st = "ready", ![w].n = @ + 1,
                                      ![w].ok = TRUE]
    /\ UNCHANGED StoreRest

\* the statement or the commit raises: the handler prints, the connection is
\* closed without a commit and the transaction is rolled back
SaveRollsBack ==
    /\ pc = "store"
    /\ \E w \in DOMAIN writers :
        /\ writers[w].st = "executed"
        /\ writers' = [writers EXCEPT ![w].st = "ready", ![w].n = @ + 1]
    /\ UNCHANGED <<tableRows, lastCommit, StoreRest>>

StoreNext == SaveExecutes \/ SaveCommits \/ SaveRollsBack

SpecStore == StoreInit /\ [][StoreNext]_vars

\* C23: after any interleaving of save_product calls the table holds at most
\* one row per url, a row for every url that was committed, and every
\* column of a row equals the column of the record committed last for its
\* url: no mixture of two records, no merge with the previous row.
C23_UpsertLastCommitted ==
    pc = "store" =>
        /\ \A i, j \in DOMAIN tableRows :
               i # j => tableRows[i].url # tableRows[j].url
        /\ \A i \in DOMAIN tableRows :
               /\ tableRows[i].url \in Urls
               /\ tableRows[i] = TableRow(lastCommit[tableRows[i].url])
        /\ \A u \in Urls :
               lastCommit[u] # NoItem => \E i \in DOMAIN tableRows : tableRows[i].url = u

\* C23 witness: both callers have committed a record for the same url, the
\* records differ, and the table holds the one row of the later commit.
C23_Witness ==
    /\ pc = "store"
    /\ writers[1].ok /\ writers[1].st = "ready"
    /\ writers[2].ok /\ writers[2].st = "ready"
    /\ writers[1].rec["Link"] = writers[2].rec["Link"]
    /\ writers[1].rec # writers[2].rec
    /\ Len(tableRows) = 1
    /\ tableRows[1] = TableRow(writers[2].rec)
    /\ tableRows[1] # TableRow(writers[1].rec)

---------------------------------------------------------------------------
(* The export: check_and_save_incrementally after each scraped listing and *)
(* the two save_to_file calls at the end of the run.  Records are numbered *)
(* in the order they were gathered.                                        *)

MaxRecords == 45
MaxBatch == 21

\* the threshold of check_and_save_incrementally
FlushEvery == 20

\* the records a listing adds after n gathered ones
NewRecords(n, b) == [i \in 1..b |-> n + i]

ExportInit ==
    /\ PoolIdle
    /\ StoreIdle
    /\ pc = "run_scraping"
    /\ all_scraped_data = <<>>
    /\ last_save_count = 0
    /\ all_data = <<>>
    /\ files = [csv |-> <<>>, xlsx |-> <<>>]
    /\ lastCall = "none"
    /\ RowsIdle
    /\ PageIdle
    /\ WorkIdle
    /\ nIn = <<>>
    /\ nOut = NA
    /\ nFn = "none"

ExportRest == <<poolVars, storeVars, normVars, rowVars, pageVars, workVars>>

\* a listing's enriched_data extends all_data and all_scraped_data (lines
\* 311, 933)
Gathered(b) ==
    /\ pc = "run_scraping"
    /\ Len(all_scraped_data) + b <= MaxRecords
    /\ all_data' = all_data \o NewRecords(Len(all_data), b)
    /\ all_scraped_data' =
           all_scraped_data \o NewRecords(Len(all_scraped_data), b)

\* the call finds fewer than 20 records since the last save
CallBelowThreshold ==
    /\ \E b \in 0..MaxBatch :
        /\ Gathered(b)
        /\ Len(all_scraped_data) + b - last_save_count < FlushEvery
    /\ lastCall' = "returned"
    /\ UNCHANGED <<pc, last_save_count, files, ExportRest>>

\* a threshold save that writes the new records only
CallFlushesDelta ==
    /\ \E b \in 0..MaxBatch :
        /\ Gathered(b)
        /\ Len(all_scraped_data) + b - last_save_count >= FlushEvery
        /\ files' = [csv |-> NewRecords(Len(all_scraped_data), b),
                     xlsx |-> NewRecords(Len(all_scraped_data), b)]
    /\ last_save_count' = Len(all_scraped_data')
    /\ lastCall' = "returned"
    /\ UNCHANGED <<pc, ExportRest>>

\* the threshold is reached: both files are written with all_scraped_data and
\* last_save_count is set (lines 937-943)
CallFlushes ==
    /\ \E b \in 0..MaxBatch :
        /\ Gathered(b)
        /\ Len(all_scraped_data) + b - last_save_count >= FlushEvery
    /\ files' = [csv |-> all_scraped_data', xlsx |-> all_scraped_data']
    /\ last_save_count' = Len(all_scraped_data')
    /\ lastCall' = "returned"
    /\ UNCHANGED <<pc, ExportRest>>

\* the threshold is reached and a write raises (the csv one, or the xlsx one
\* after the csv was written): the call raises into the handler of
\* scrape_category_recursive, last_save_count is not set
CallFlushRaises ==
    /\ \E b \in 0..MaxBatch :
        /\ Gathered(b)
        /\ Len(all_scraped_data) + b - last_save_count >= FlushEvery
    /\ \/ files' = files
       \/ files' = [files EXCEPT !.csv = all_scraped_data']
    /\ lastCall' = "raised"
    /\ UNCHANGED <<pc, last_save_count, ExportRest>>

\* navigate_all_categories returns all_data and __main__ saves it to both
\* files; save_to_file writes nothing for an empty list
FinalFlush ==
    /\ pc = "run_scraping"
    /\ pc' = "run_done"
    /\ files' = IF all_data = <<>> THEN files
                ELSE [csv |-> all_data, xlsx |-> all_data]
    /\ UNCHANGED <<all_scraped_data, last_save_count, all_data, lastCall, ExportRest>>

\* a write of the final save raises: "Critical Error"
FinalFlushRaises ==
    /\ pc = "run_scraping"
    /\ all_data # <<>>
    /\ pc' = "run_failed"
    /\ \/ files' = files
       \/ files' = [files EXCEPT !.csv = all_data]
    /\ UNCHANGED <<all_scraped_data, last_save_count, all_data, lastCall, ExportRest>>

ExportNext ==
    \/ CallBelowThreshold
    \/ CallFlushes
    \/ CallFlushRaises
    \/ FinalFlush
    \/ FinalFlushRaises

SpecExport == ExportInit /\ [][ExportNext]_vars

\* s is the first n records of t
IsPrefix(s, t) == Len(s) <= Len(t) /\ s = SubSeq(t, 1, Len(s))

\* C24: last_save_count never exceeds the number of accumulated records, and
\* after every call of check_and_save_incrementally that returns fewer than
\* 20 records are newer than the last save; a threshold save writes all the
\* records accumulated so far (after it both files hold the first
\* last_save_count records, not the last batch); and at the end of the run
\* the records returned to __main__ are the accumulated ones and both files
\* hold all of them.
C24_FlushCompleteSet ==
    pc \in {"run_scraping", "run_done", "run_failed"} =>
        /\ last_save_count <= Len(all_scraped_data)
        /\ all_data = all_scraped_data
        /\ lastCall = "returned" =>
               Len(all_scraped_data) - last_save_count < FlushEvery
        /\ (last_save_count > 0 /\ pc = "run_scraping") =>
               /\ files.xlsx = SubSeq(all_scraped_data, 1, last_save_count)
               /\ IsPrefix(files.csv, all_scraped_data)
               /\ Len(files.csv) >= last_save_count
        /\ (pc = "run_done" /\ all_scraped_data # <<>>) =>
               /\ files.csv = all_scraped_data
               /\ files.xlsx = all_scraped_data

\* C24 witness: the run has ended after two threshold saves and some later
\* records; the files hold more records than the last threshold save wrote.
C24_Witness ==
    /\ pc = "run_done"
    /\ last_save_count >= 2 * FlushEvery
    /\ Len(all_scraped_data) > last_save_count
    /\ files.csv = all_scraped_data
    /\ files.xlsx = all_scraped_data

============================================================================
